---- MODULE Spec2Model ----
(***************************************************************************)
(* Model of the matching + risk-analytics engine of RatChallenge:          *)
(*   DataLoader                             (api/services/data_loader.py)  *)
(*   RestaurantMatcher                      (backend/services/matcher.py)  *)
(*   AnalyticsService                       (api/services/analytics.py)    *)
(*   NYCOpenDataClient.get_latest_grades    (api/services/nyc_api.py)      *)
(*   NYCInspectionAPI.fetch_all_inspections (backend/services/nyc_api.py)  *)
(*   get_analytics_service                  (api/index.py)                 *)
(*                                                                         *)
(* Text is modelled character by character: a Python str is a sequence of  *)
(* one-character strings, so that strip, case folding, regular-expression  *)
(* suffix rules and substring search are computed rather than assumed.     *)
(* Money is an integer number of cents, so round(x, 2) of a sum of costs   *)
(* is that sum.  A pandas frame is a record [cols, rows]: reading a column *)
(* that is not in cols raises KeyError, as it does in pandas.              *)
(***************************************************************************)
EXTENDS Integers, Sequences, FiniteSets, TLC

VARIABLES
    mappingFile,   \* the reference file on disk: [state, items]
    orders,        \* orders_df, the loaded order rows
    inspections,   \* inspections_df, the raw inspection rows (many per camis)
    matcher,       \* the RestaurantMatcher: [state, mapping, normalized]
    merged,        \* AnalyticsService._merged_df: NotComputed or a frame
    query,         \* the raw name handed to get_camis or normalize_restaurant_name
    ordersFile,    \* the orders CSV on disk: [exists, cols, rows]
    loader,        \* DataLoader._orders_df: NotLoaded or the frame it cached
    service,       \* index.py: the module-level cache and the calls of get_analytics_service
    api,           \* NYCInspectionAPI: a call of fetch_all_inspections, its cache and requests
    last           \* the last call made and what it returned or raised

vars == <<mappingFile, orders, inspections, matcher, merged, query, ordersFile, loader,
          service, api, last>>

----------------------------------------------------------------------------
(* Bounds of the model. *)

MaxWords == 3      \* words concatenated into a raw restaurant name
MaxOrders == 2     \* rows of orders_df
MaxInsp == 2       \* rows of inspections_df

----------------------------------------------------------------------------
(* Python str as a sequence of characters. *)

UPPER == <<"A","B","C","D","E","F","G","H","I","J","K","L","M",
           "N","O","P","Q","R","S","T","U","V","W","X","Y","Z">>
LOWER == <<"a","b","c","d","e","f","g","h","i","j","k","l","m",
           "n","o","p","q","r","s","t","u","v","w","x","y","z">>
DIGITS == {"0","1","2","3","4","5","6","7","8","9"}

\* str.isspace characters that can occur in a name
SpaceChars == {" ", "\t", "\n", "\r", "\f"}

LowerMap == [c \in {UPPER[i] : i \in 1..26} |-> LOWER[CHOOSE i \in 1..26 : UPPER[i] = c]]
UpperMap == [c \in {LOWER[i] : i \in 1..26} |-> UPPER[CHOOSE i \in 1..26 : LOWER[i] = c]]

LowerChar(c) == IF c \in DOMAIN LowerMap THEN LowerMap[c] ELSE c
UpperChar(c) == IF c \in DOMAIN UpperMap THEN UpperMap[c] ELSE c

\* str.lower() and str.upper()
Lower(s) == [i \in 1..Len(s) |-> LowerChar(s[i])]
Upper(s) == [i \in 1..Len(s) |-> UpperChar(s[i])]

SetMax(S) == CHOOSE x \in S : \A y \in S : y <= x
SetMin(S) == CHOOSE x \in S : \A y \in S : x <= y

\* str.strip(chars): drop the leading and trailing characters that are in cs
StripSet(s, cs) ==
    LET keep == {i \in 1..Len(s) : s[i] \notin cs}
    IN  IF keep = {} THEN <<>> ELSE SubSeq(s, SetMin(keep), SetMax(keep))

\* str.strip()
Strip(s) == StripSet(s, SpaceChars)

\* kw in s  (substring test)
Contains(s, kw) ==
    \E i \in 1..(Len(s) - Len(kw) + 1) : SubSeq(s, i, i + Len(kw) - 1) = kw

----------------------------------------------------------------------------
(* The regular expressions of NAME_SUFFIXES.  A pattern is a sequence of   *)
(* elements; every pattern of the list ends with $, which MatchStarts      *)
(* states.  Matching is case-insensitive (re.IGNORECASE).                  *)

WsStar == [k |-> "ws*"]                  \* \s*
WsPlus == [k |-> "ws+"]                  \* \s+
DigitPlus == [k |-> "d+"]                \* \d+
AnyStar == [k |-> "any*"]                \* .*
Lit(s) == [k |-> "lit", s |-> s]         \* literal text
Opt(p) == [k |-> "opt", p |-> p]         \* ( ... )?

NAME_SUFFIXES == <<
    \* \s*-\s*CLOSED\s*$
    <<WsStar, Lit(<<"-">>), WsStar, Lit(<<"C","L","O","S","E","D">>), WsStar>>,
    \* \s*-\s*\$\d+(\.\d+)?\s+off.*$
    <<WsStar, Lit(<<"-">>), WsStar, Lit(<<"$">>), DigitPlus,
      Opt(<<Lit(<<".">>), DigitPlus>>), WsPlus, Lit(<<"o","f","f">>), AnyStar>>,
    \* \s*\$\d+(\.\d+)?\s+Delivery\s*(Fee)?\s*$
    <<WsStar, Lit(<<"$">>), DigitPlus, Opt(<<Lit(<<".">>), DigitPlus>>), WsPlus,
      Lit(<<"D","e","l","i","v","e","r","y">>), WsStar, Opt(<<Lit(<<"F","e","e">>)>>), WsStar>>,
    \* \s*\(archived\)\s*$
    <<WsStar, Lit(<<"(","a","r","c","h","i","v","e","d",")">>), WsStar>>,
    \* \s*-\s*Midtown\s*$
    <<WsStar, Lit(<<"-">>), WsStar, Lit(<<"M","i","d","t","o","w","n">>), WsStar>>,
    \* \s*-\s*Downtown\s*$
    <<WsStar, Lit(<<"-">>), WsStar, Lit(<<"D","o","w","n","t","o","w","n">>), WsStar>>,
    \* \s*-\s*UES\s*$
    <<WsStar, Lit(<<"-">>), WsStar, Lit(<<"U","E","S">>), WsStar>>,
    \* \s*-\s*UWS\s*$
    <<WsStar, Lit(<<"-">>), WsStar, Lit(<<"U","W","S">>), WsStar>>,
    \* \s*-\s*Brooklyn\s*$
    <<WsStar, Lit(<<"-">>), WsStar, Lit(<<"B","r","o","o","k","l","y","n">>), WsStar>>,
    \* \s*-\s*Manhattan\s*$
    <<WsStar, Lit(<<"-">>), WsStar, Lit(<<"M","a","n","h","a","t","t","a","n">>), WsStar>>,
    \* \s+Broadway\s*$
    <<WsPlus, Lit(<<"B","r","o","a","d","w","a","y">>), WsStar>>,
    \* \s+Hudson\s*$
    <<WsPlus, Lit(<<"H","u","d","s","o","n">>), WsStar>> >>

RECURSIVE MatchEnds(_, _, _)
\* The positions after a match of element e that starts at position i of s.
StepElem(e, s, i) ==
    CASE e.k = "ws*" -> {j \in i..(Len(s) + 1) : \A n \in i..(j - 1) : s[n] \in SpaceChars}
      [] e.k = "ws+" -> {j \in (i + 1)..(Len(s) + 1) : \A n \in i..(j - 1) : s[n] \in SpaceChars}
      [] e.k = "d+"  -> {j \in (i + 1)..(Len(s) + 1) : \A n \in i..(j - 1) : s[n] \in DIGITS}
      [] e.k = "any*" -> {j \in i..(Len(s) + 1) : \A n \in i..(j - 1) : s[n] # "\n"}
      [] e.k = "lit" -> IF /\ i + Len(e.s) - 1 <= Len(s)
                            /\ Lower(SubSeq(s, i, i + Len(e.s) - 1)) = Lower(e.s)
                        THEN {i + Len(e.s)} ELSE {}
      [] e.k = "opt" -> {i} \cup MatchEnds(e.p, s, {i})

\* The positions after a match of pattern p that starts at a position of I.
MatchEnds(p, s, I) ==
    IF p = <<>> THEN I
    ELSE MatchEnds(Tail(p), s, UNION {StepElem(Head(p), s, i) : i \in I})

\* $ matches at the end of the string.  (It also matches before a final
\* newline; the string the rules see is stripped and every rule removes the
\* whitespace before its suffix, so it never ends with one.)
AtEnd(s, j) == j = Len(s) + 1

\* The start positions from which pattern p matches up to $.
MatchStarts(p, s) ==
    {i \in 1..(Len(s) + 1) : \E j \in MatchEnds(p, s, {i}) : AtEnd(s, j)}

\* re.search(p, s, re.IGNORECASE) is not None
Matches(p, s) == MatchStarts(p, s) # {}

\* re.sub(p, "", s, flags=re.IGNORECASE): the leftmost match is removed; it
\* runs to the end of the string, so nothing is left to match after it.
ReSub(p, s) ==
    IF Matches(p, s) THEN SubSeq(s, 1, SetMin(MatchStarts(p, s)) - 1) ELSE s

RECURSIVE ApplySuffixes(_, _)
\* for pattern in cls.NAME_SUFFIXES: normalized = re.sub(pattern, "", normalized)
ApplySuffixes(ps, s) ==
    IF ps = <<>> THEN s ELSE ApplySuffixes(Tail(ps), ReSub(Head(ps), s))

\* Values that are not str: None is Python's None, NaN the missing value of
\* a text column (a float).  pd.isna of a text value.
None == <<"<None>">>
NaN == <<"<NaN>">>
IsNa(v) == v = None \/ v = NaN

\* Mutant of normalize_restaurant_name: the closure rule is applied last,
\* not first.
NormalizeClosureRuleLast(name) ==
    IF IsNa(name) \/ name = <<>> THEN <<>>
    ELSE Strip(ApplySuffixes(Tail(NAME_SUFFIXES) \o <<NAME_SUFFIXES[1]>>,
                             Strip(StripSet(Strip(name), {"\""}))))

\* DataLoader.normalize_restaurant_name: "" for an argument that is falsy
\* (None, the empty string) or not a str (NaN), else one pass of the rules
normalize_restaurant_name(name) ==
    IF IsNa(name) \/ name = <<>> THEN <<>>
    ELSE Strip(ApplySuffixes(NAME_SUFFIXES, Strip(StripSet(Strip(name), {"\""}))))

----------------------------------------------------------------------------
(* Values.  NaT is the missing value of a date column.                     *)

NaT == 0

\* pd.isna of a date value
IsNaT(d) == d = NaT

\* ASCII order of the characters used, for sorted() and groupby's key order
ASCII == <<" ", "\"", "$", "(", ")", "-", ".",
           "0","1","2","3","4","5","6","7","8","9">> \o UPPER \o <<"_">> \o LOWER
OrdMap == [c \in {ASCII[i] : i \in 1..Len(ASCII)} |-> CHOOSE i \in 1..Len(ASCII) : ASCII[i] = c]

RECURSIVE TextLess(_, _)
\* a < b for two str values
TextLess(a, b) ==
    IF b = <<>> THEN FALSE
    ELSE IF a = <<>> THEN TRUE
    ELSE IF Head(a) = Head(b) THEN TextLess(Tail(a), Tail(b))
    ELSE OrdMap[Head(a)] < OrdMap[Head(b)]

RECURSIVE SortedTexts(_)
\* sorted(S) for a set S of str values
SortedTexts(S) ==
    IF S = {} THEN <<>>
    ELSE LET m == CHOOSE x \in S : \A y \in S : y = x \/ TextLess(x, y)
         IN  <<m>> \o SortedTexts(S \ {m})

\* The elements of a sequence
Range(s) == {s[i] : i \in 1..Len(s)}

RECURSIVE SumCost(_)
\* df["cost_of_the_order"].sum()
SumCost(rows) ==
    IF rows = <<>> THEN 0 ELSE Head(rows).cost_of_the_order + SumCost(Tail(rows))

\* A raised exception, and a returned value, as the outcome of a call
Raise(e) == [raised |-> e]
Return(v) == [raised |-> "", value |-> v]
Returned(r) == r.raised = ""

----------------------------------------------------------------------------
(* Python dict: a sequence of [key, val] items in insertion order, the     *)
(* keys distinct.                                                          *)

DictHas(d, k) == \E i \in 1..Len(d) : d[i].key = k
DictGet(d, k) == d[CHOOSE i \in 1..Len(d) : d[i].key = k].val
DictSet(d, k, v) ==
    IF DictHas(d, k)
    THEN [i \in 1..Len(d) |-> IF d[i].key = k THEN [key |-> k, val |-> v] ELSE d[i]]
    ELSE Append(d, [key |-> k, val |-> v])

----------------------------------------------------------------------------
(* RestaurantMatcher.  The reference file is [state, items]: state is      *)
(* "missing", "unreadable" (open fails), "invalid" (not JSON) or "ok", and *)
(* items is the parsed object, name -> [camis, boro], where None stands    *)
(* for a key the entry does not have (info.get(...) returns None).         *)

RECURSIVE BuildNormalizedFirstWins(_, _)
\* Mutant of BuildNormalized: an entry whose normalized key is already in the
\* lookup does not replace the earlier one.
BuildNormalizedFirstWins(items, acc) ==
    IF items = <<>> THEN acc
    ELSE LET k == Lower(normalize_restaurant_name(Head(items).key))
         IN  BuildNormalizedFirstWins(Tail(items),
                IF DictHas(acc, k) THEN acc
                ELSE DictSet(acc, k, [original_name |-> Head(items).key,
                                      camis |-> Head(items).val.camis,
                                      boro |-> Head(items).val.boro]))

RECURSIVE BuildNormalized(_, _)
\* for name, info in self._mapping.items():
\*     self._normalized_mapping[normalize(name).lower()] = {"original_name": name, **info}
BuildNormalized(items, acc) ==
    IF items = <<>> THEN acc
    ELSE BuildNormalized(Tail(items),
            DictSet(acc, Lower(normalize_restaurant_name(Head(items).key)),
                    [original_name |-> Head(items).key,
                     camis |-> Head(items).val.camis,
                     boro |-> Head(items).val.boro]))

\* RestaurantMatcher._load_mapping: the two dicts it leaves, or what it raises
_load_mapping(file) ==
    IF file.state = "missing" THEN Return([mapping |-> <<>>, normalized |-> <<>>])
    ELSE IF file.state = "unreadable" THEN Raise("PermissionError")
    ELSE IF file.state = "invalid" THEN Raise("JSONDecodeError")
    ELSE LET mapping == SelectSeq(file.items, LAMBDA it : it.key = <<>> \/ Head(it.key) # "_")
         IN  Return([mapping |-> mapping, normalized |-> BuildNormalized(mapping, <<>>)])

\* Mutant of get_camis: the normalized lookup is tried before the exact one.
GetCamisNormalizedFirst(self, restaurant_name) ==
    LET normalized == Lower(normalize_restaurant_name(restaurant_name))
    IN  IF DictHas(self.normalized, normalized) THEN DictGet(self.normalized, normalized).camis
        ELSE IF DictHas(self.mapping, restaurant_name)
             THEN DictGet(self.mapping, restaurant_name).camis
        ELSE None

\* Mutant of get_camis: a name that neither lookup finds resolves to the
\* first entry of the table.
GetCamisNearest(self, restaurant_name) ==
    IF DictHas(self.mapping, restaurant_name)
    THEN DictGet(self.mapping, restaurant_name).camis
    ELSE LET normalized == Lower(normalize_restaurant_name(restaurant_name))
         IN  IF DictHas(self.normalized, normalized)
             THEN DictGet(self.normalized, normalized).camis
             ELSE IF self.mapping # <<>> THEN self.mapping[1].val.camis
             ELSE None

\* RestaurantMatcher.get_camis
get_camis(self, restaurant_name) ==
    IF DictHas(self.mapping, restaurant_name)
    THEN DictGet(self.mapping, restaurant_name).camis
    ELSE LET normalized == Lower(normalize_restaurant_name(restaurant_name))
         IN  IF DictHas(self.normalized, normalized)
             THEN DictGet(self.normalized, normalized).camis
             ELSE None

\* RestaurantMatcher.get_restaurant_info: [found |-> FALSE] stands for None
get_restaurant_info(self, restaurant_name) ==
    IF DictHas(self.mapping, restaurant_name)
    THEN LET info == DictGet(self.mapping, restaurant_name)
         IN  [found |-> TRUE,
              info |-> [name |-> restaurant_name, camis |-> info.camis, boro |-> info.boro]]
    ELSE LET normalized == Lower(normalize_restaurant_name(restaurant_name))
         IN  IF DictHas(self.normalized, normalized)
             THEN [found |-> TRUE, info |-> DictGet(self.normalized, normalized)]
             ELSE [found |-> FALSE]

----------------------------------------------------------------------------
(* Frames.  An order row is [order_id, restaurant_name, cost_of_the_order]; *)
(* an inspection row is [camis, boro, grade, grade_date, inspection_date,  *)
(* action, violation_description, critical_flag].  The other columns of    *)
(* the two sources are carried through unread and are left out.            *)

OrderCols == {"order_id", "restaurant_name", "cost_of_the_order"}
InspectionCols == {"camis", "boro", "grade", "grade_date", "inspection_date",
                   "action", "violation_description", "critical_flag"}

\* pd.DataFrame()
EmptyFrame == [cols |-> {}, rows |-> <<>>]

\* df.empty
IsEmpty(rows) == rows = <<>>

\* df.sort_values(column, ascending=False): the orders the rows can come out
\* in.  Rows with a null key go last, in their original order; rows with
\* equal keys come out in an order the default (unstable) sort does not fix.
\* nullable says that the column is a date column, where NaT is the null.
SortDescChoices(rows, column, nullable) ==
    LET n == Len(rows)
        key(i) == rows[i][column]
        null(i) == nullable /\ IsNaT(rows[i][column])
        Ok(p) == \A i, j \in 1..n : i < j =>
                    IF null(p[i])
                    THEN null(p[j]) /\ p[i] < p[j]
                    ELSE null(p[j]) \/ key(p[i]) >= key(p[j])
    IN  {[i \in 1..n |-> rows[p[i]]] :
            p \in {q \in [1..n -> 1..n] : (\A i, j \in 1..n : i # j => q[i] # q[j]) /\ Ok(q)}}

\* GroupBy.first() of one column: the first value that is not null
FirstText(vals) ==
    LET ok == SelectSeq(vals, LAMBDA v : ~IsNa(v)) IN IF ok = <<>> THEN NaN ELSE Head(ok)
FirstDate(vals) ==
    LET ok == SelectSeq(vals, LAMBDA v : ~IsNaT(v)) IN IF ok = <<>> THEN NaT ELSE Head(ok)

\* df[column] as a sequence
Column(rows, column) == [i \in 1..Len(rows) |-> rows[i][column]]

\* sorted_df.groupby("camis").first().reset_index(): one row per camis, in
\* key order, each column holding the group's first non-null value
GroupFirst(sorted) ==
    LET keys == SortedTexts({r.camis : r \in {x \in Range(sorted) : ~IsNa(x.camis)}})
        Row(k) ==
            LET g == SelectSeq(sorted, LAMBDA r : r.camis = k)
            IN  [camis |-> k,
                 boro |-> FirstText(Column(g, "boro")),
                 grade |-> FirstText(Column(g, "grade")),
                 grade_date |-> FirstDate(Column(g, "grade_date")),
                 inspection_date |-> FirstDate(Column(g, "inspection_date")),
                 action |-> FirstText(Column(g, "action")),
                 violation_description |-> FirstText(Column(g, "violation_description")),
                 critical_flag |-> FirstText(Column(g, "critical_flag"))]
    IN  [i \in 1..Len(keys) |-> Row(keys[i])]

\* RestaurantMatcher._get_latest_inspections: the frames it can return
_get_latest_inspections(inspections_df) ==
    IF IsEmpty(inspections_df) THEN {<<>>}
    ELSE {GroupFirst(sorted) :
            sorted \in SortDescChoices(inspections_df, "inspection_date", TRUE)}

\* An order row with its camis and the inspection columns of row r
Joined(o, camis, r) ==
    [order_id |-> o.order_id, restaurant_name |-> o.restaurant_name,
     cost_of_the_order |-> o.cost_of_the_order, camis |-> camis,
     boro |-> r.boro, grade |-> r.grade, grade_date |-> r.grade_date,
     inspection_date |-> r.inspection_date, action |-> r.action,
     violation_description |-> r.violation_description,
     critical_flag |-> r.critical_flag]

\* The inspection columns of an order that found no inspection row
NoInspection ==
    [boro |-> NaN, grade |-> NaN, grade_date |-> NaT, inspection_date |-> NaT,
     action |-> NaN, violation_description |-> NaN, critical_flag |-> NaN]

\* pandas joins two null keys to each other
KeyEq(a, b) == (IsNa(a) /\ IsNa(b)) \/ a = b

RECURSIVE LeftMerge(_, _)
\* left.merge(right, on="camis", how="left"): every left row, in order, once
\* per right row of its camis, or once with nulls when there is none
LeftMerge(left, right) ==
    IF left = <<>> THEN <<>>
    ELSE LET o == Head(left)
             hits == SelectSeq(right, LAMBDA r : KeyEq(r.camis, o.camis))
         IN  (IF hits = <<>> THEN <<Joined(o, o.camis, NoInspection)>>
              ELSE [i \in 1..Len(hits) |-> Joined(o, o.camis, hits[i])])
             \o LeftMerge(Tail(left), right)

\* orders_df with the camis column added
WithCamis(self, orders_df) ==
    [i \in 1..Len(orders_df) |->
        [order_id |-> orders_df[i].order_id,
         restaurant_name |-> orders_df[i].restaurant_name,
         cost_of_the_order |-> orders_df[i].cost_of_the_order,
         camis |-> get_camis(self, orders_df[i].restaurant_name)]]

\* Mutant of match_orders_to_inspections: the orders are merged with the
\* unreduced inspection rows.
MatchOrdersToRawInspections(self, orders_df, inspections_df) ==
    IF IsEmpty(orders_df) THEN {EmptyFrame}
    ELSE IF IsEmpty(inspections_df)
    THEN {[cols |-> OrderCols \cup {"camis"},
           rows |-> LeftMerge(WithCamis(self, orders_df), <<>>)]}
    ELSE {[cols |-> OrderCols \cup InspectionCols,
           rows |-> LeftMerge(WithCamis(self, orders_df), inspections_df)]}

\* RestaurantMatcher.match_orders_to_inspections: the frames it can return.
\* Without inspections the frame has no inspection column; its rows carry
\* nulls in the model, which no operation may read (cols says so).
match_orders_to_inspections(self, orders_df, inspections_df) ==
    IF IsEmpty(orders_df) THEN {EmptyFrame}
    ELSE IF IsEmpty(inspections_df)
    THEN {[cols |-> OrderCols \cup {"camis"},
           rows |-> LeftMerge(WithCamis(self, orders_df), <<>>)]}
    ELSE {[cols |-> OrderCols \cup InspectionCols,
           rows |-> LeftMerge(WithCamis(self, orders_df), latest)] :
            latest \in _get_latest_inspections(inspections_df)}

\* RestaurantMatcher.enrich_orders_with_boro: the boro column is replaced by
\* the reference borough of the row's name
enrich_orders_with_boro(self, df) ==
    IF "restaurant_name" \notin df.cols THEN Raise("KeyError")
    ELSE LET get_boro(name) ==
                 LET r == get_restaurant_info(self, name)
                 IN  IF r.found /\ ~IsNa(r.info.boro) THEN r.info.boro ELSE NaN
         IN  Return([cols |-> df.cols \cup {"boro"},
                     rows |-> [i \in 1..Len(df.rows) |->
                                [df.rows[i] EXCEPT !.boro = get_boro(df.rows[i].restaurant_name)]]])

----------------------------------------------------------------------------
(* AnalyticsService. *)

RISK_GRADES == {<<"C">>, <<"P">>, <<"N">>, <<"Z">>}
RODENT_KEYWORDS == {<<"R","O","D","E","N","T">>, <<"R","A","T">>, <<"M","I","C","E">>,
                    <<"M","O","U","S","E">>, <<"V","E","R","M","I","N">>}
CLOSURE_KEYWORDS == {<<"C","L","O","S","E","D">>, <<"R","E","-","C","L","O","S","E","D">>,
                     <<"R","E","C","L","O","S","E","D">>}
\* the list ["A", "B", "C", "Z", "P", "N"] of the graded filters
GRADED == {<<"A">>, <<"B">>, <<"C">>, <<"Z">>, <<"P">>, <<"N">>}
CRITICAL == <<"C","R","I","T","I","C","A","L">>

\* series.str.contains("|".join(keywords), case=False, na=False) for one value
StrContains(v, keywords) ==
    ~IsNa(v) /\ \E kw \in keywords : Contains(Upper(v), Upper(kw))

\* series.str.upper() == "CRITICAL" for one value (a null compares unequal)
IsCritical(v) == ~IsNa(v) /\ Upper(v) = CRITICAL

\* AnalyticsService._find_rodent_violations: the raw rows with a rodent keyword
_find_rodent_violations(inspections_df) ==
    IF IsEmpty(inspections_df) THEN <<>>
    ELSE SelectSeq(inspections_df,
                   LAMBDA r : StrContains(r.violation_description, RODENT_KEYWORDS))

\* n / d rounded to the nearest integer, halves to the even one (d > 0, n >= 0)
RoundDiv(n, d) ==
    LET q == n \div d
        r == n % d
    IN  IF 2 * r < d THEN q
        ELSE IF 2 * r > d THEN q + 1
        ELSE IF q % 2 = 0 THEN q ELSE q + 1

\* (revenue / total_revenue * 100).round(2), in hundredths of a percent.  The
\* division is a float division: x / 0.0 is nan for x = 0 and inf otherwise.
Percentage(revenue, total) ==
    IF total = 0 THEN (IF revenue = 0 THEN [kind |-> "nan"] ELSE [kind |-> "inf"])
    ELSE [kind |-> "num", v |-> RoundDiv(revenue * 10000, total)]

\* grade_stats: one record per grade present among the graded rows, in key order
GradeStats(graded_orders, total_revenue) ==
    LET keys == SortedTexts({r.grade : r \in Range(graded_orders)})
        Stat(g) ==
            LET rows == SelectSeq(graded_orders, LAMBDA r : r.grade = g)
            IN  [grade |-> g, revenue |-> SumCost(rows), order_count |-> Len(rows),
                 percentage |-> Percentage(SumCost(rows), total_revenue)]
    IN  [i \in 1..Len(keys) |-> Stat(keys[i])]

\* Mutant of get_revenue_by_grade: the matched orders without a grade are
\* not added to the unmatched bucket.
RevenueByGradeUnresolvedOnly(orders_df, m) ==
    IF "grade" \notin m.cols THEN Raise("KeyError")
    ELSE
    LET total_revenue == SumCost(orders_df)
        graded_orders == SelectSeq(m.rows, LAMBDA r : r.grade \in GRADED)
        unmatched_orders == SelectSeq(m.rows, LAMBDA r : IsNa(r.camis))
    IN  Return([total_revenue |-> total_revenue,
                grades |-> GradeStats(graded_orders, total_revenue),
                unmatched_revenue |-> SumCost(unmatched_orders),
                unmatched_order_count |-> Len(unmatched_orders)])

\* AnalyticsService.get_revenue_by_grade, given the merged frame
get_revenue_by_grade(orders_df, m) ==
    IF "grade" \notin m.cols THEN Raise("KeyError")
    ELSE
    LET total_revenue == SumCost(orders_df)
        graded_orders == SelectSeq(m.rows, LAMBDA r : r.grade \in GRADED)
        unmatched_orders == SelectSeq(m.rows, LAMBDA r : IsNa(r.camis))
        matched_no_grade == SelectSeq(m.rows, LAMBDA r : ~IsNa(r.camis) /\ r.grade \notin GRADED)
    IN  Return([total_revenue |-> total_revenue,
                grades |-> GradeStats(graded_orders, total_revenue),
                unmatched_revenue |-> SumCost(unmatched_orders) + SumCost(matched_no_grade),
                unmatched_order_count |-> Len(unmatched_orders) + Len(matched_no_grade)])

\* Mutant of RiskCategories: an order without a grade (a null grade, as the
\* unresolved orders have) counts as grade pending.
RiskCategoriesNullPending(m) ==
    [closed |-> IF "action" \in m.cols
                THEN SelectSeq(m.rows, LAMBDA r : StrContains(r.action, CLOSURE_KEYWORDS))
                ELSE <<>>,
     grade_c |-> SelectSeq(m.rows, LAMBDA r : r.grade = <<"C">>),
     grade_pending |-> SelectSeq(m.rows,
                           LAMBDA r : IsNa(r.grade) \/ r.grade \in {<<"P">>, <<"N">>, <<"Z">>}),
     critical_violation |-> IF "critical_flag" \in m.cols
                            THEN SelectSeq(m.rows, LAMBDA r : IsCritical(r.critical_flag))
                            ELSE <<>>]

\* The four filtered frames of get_revenue_at_risk: closed_orders,
\* grade_c_orders, pending_orders and critical_orders
RiskCategories(m) ==
    [closed |-> IF "action" \in m.cols
                THEN SelectSeq(m.rows, LAMBDA r : StrContains(r.action, CLOSURE_KEYWORDS))
                ELSE <<>>,
     grade_c |-> SelectSeq(m.rows, LAMBDA r : r.grade = <<"C">>),
     grade_pending |-> SelectSeq(m.rows, LAMBDA r : r.grade \in {<<"P">>, <<"N">>, <<"Z">>}),
     critical_violation |-> IF "critical_flag" \in m.cols
                            THEN SelectSeq(m.rows, LAMBDA r : IsCritical(r.critical_flag))
                            ELSE <<>>]

\* The dict get_revenue_at_risk returns, given the four frames and its total
RiskResult(cat, total_rar, order_count) ==
    [total_revenue_at_risk |-> total_rar,
     order_count |-> order_count,
     breakdown |-> [k \in DOMAIN cat |-> SumCost(cat[k])],
     risk_categories |-> [k \in DOMAIN cat |-> Len(cat[k])]]

\* Mutant of get_revenue_at_risk: the total is the sum of the category totals.
RevenueAtRiskSummed(m) ==
    IF "grade" \notin m.cols THEN Raise("KeyError")
    ELSE LET cat == RiskCategories(m)
         IN  Return(RiskResult(cat,
                SumCost(cat.closed) + SumCost(cat.grade_c)
                    + SumCost(cat.grade_pending) + SumCost(cat.critical_violation),
                Len(cat.closed) + Len(cat.grade_c)
                    + Len(cat.grade_pending) + Len(cat.critical_violation)))

\* Mutant of get_revenue_at_risk: the critical orders are left out of the set
\* of orders at risk.
RevenueAtRiskWithoutCritical(m) ==
    IF "grade" \notin m.cols THEN Raise("KeyError")
    ELSE LET cat == RiskCategories(m)
             at_risk_orders == {r.order_id : r \in Range(cat.closed)}
                               \cup {r.order_id : r \in Range(cat.grade_c)}
                               \cup {r.order_id : r \in Range(cat.grade_pending)}
             all_at_risk == SelectSeq(m.rows, LAMBDA r : r.order_id \in at_risk_orders)
         IN  Return(RiskResult(cat, SumCost(all_at_risk), Cardinality(at_risk_orders)))

\* Mutant of get_revenue_at_risk: the orders whose joined description has a
\* rodent keyword are added to the set of orders at risk.
RevenueAtRiskWithRodent(m) ==
    IF "grade" \notin m.cols THEN Raise("KeyError")
    ELSE LET cat == RiskCategories(m)
             rodent == SelectSeq(m.rows,
                          LAMBDA r : StrContains(r.violation_description, RODENT_KEYWORDS))
             at_risk_orders == {r.order_id : r \in Range(cat.closed)}
                               \cup {r.order_id : r \in Range(cat.grade_c)}
                               \cup {r.order_id : r \in Range(cat.grade_pending)}
                               \cup {r.order_id : r \in Range(cat.critical_violation)}
                               \cup {r.order_id : r \in Range(rodent)}
             all_at_risk == SelectSeq(m.rows, LAMBDA r : r.order_id \in at_risk_orders)
         IN  Return(RiskResult(cat, SumCost(all_at_risk), Cardinality(at_risk_orders)))

\* AnalyticsService.get_revenue_at_risk, given the merged frame
get_revenue_at_risk(m) ==
    IF "grade" \notin m.cols THEN Raise("KeyError")
    ELSE LET cat == RiskCategories(m)
             \* the set at_risk_orders after its four updates
             at_risk_orders == {r.order_id : r \in Range(cat.closed)}
                               \cup {r.order_id : r \in Range(cat.grade_c)}
                               \cup {r.order_id : r \in Range(cat.grade_pending)}
                               \cup {r.order_id : r \in Range(cat.critical_violation)}
             all_at_risk == SelectSeq(m.rows, LAMBDA r : r.order_id \in at_risk_orders)
         IN  Return(RiskResult(cat, SumCost(all_at_risk), Cardinality(at_risk_orders)))

\* The result of get_rodent_orders when there is nothing to report
NoRodentOrders ==
    [total_rodent_revenue |-> 0, order_count |-> 0, unique_restaurants |-> 0, orders |-> <<>>]

\* rodent_violations.groupby("camis").agg({"violation_description": "first",
\* "inspection_date": "max"}): one row per camis, in key order
RodentDetails(rodent_violations) ==
    LET keys == SortedTexts({r.camis : r \in {x \in Range(rodent_violations) : ~IsNa(x.camis)}})
        Row(k) ==
            LET g == SelectSeq(rodent_violations, LAMBDA r : r.camis = k)
                dates == {r.inspection_date : r \in Range(g)} \ {NaT}
            IN  [camis |-> k,
                 violation_description |-> FirstText(Column(g, "violation_description")),
                 inspection_date |-> IF dates = {} THEN NaT ELSE SetMax(dates)]
    IN  [i \in 1..Len(keys) |-> Row(keys[i])]

RECURSIVE MergeRodentDetails(_, _)
\* rodent_orders.merge(rodent_details, on="camis", how="left", suffixes=("", "_rodent"))
\* and the entry of the response built from each row.  The date is rendered
\* by strftime, or as "Unknown" when null: the model keeps the date.
MergeRodentDetails(rodent_orders, details) ==
    IF rodent_orders = <<>> THEN <<>>
    ELSE LET o == Head(rodent_orders)
             hits == SelectSeq(details, LAMBDA d : KeyEq(d.camis, o.camis))
             Entry(d) == [order_id |-> o.order_id, restaurant_name |-> o.restaurant_name,
                          cost |-> o.cost_of_the_order,
                          violation_description |-> d.violation_description,
                          inspection_date |-> d.inspection_date, camis |-> o.camis]
         IN  (IF hits = <<>>
              THEN <<Entry([violation_description |-> NaN, inspection_date |-> NaT])>>
              ELSE [i \in 1..Len(hits) |-> Entry(hits[i])])
             \o MergeRodentDetails(Tail(rodent_orders), details)

\* Mutant of get_rodent_orders: the rodent test reads the joined (latest)
\* record of the order instead of the raw inspection history.
RodentOrdersFromLatest(inspections_df, m) ==
    IF "camis" \notin m.cols THEN Raise("KeyError")
    ELSE
    LET rodent_orders == SelectSeq(m.rows,
                            LAMBDA r : StrContains(r.violation_description, RODENT_KEYWORDS))
    IN  IF IsEmpty(rodent_orders) THEN Return(NoRodentOrders)
        ELSE Return([total_rodent_revenue |-> SumCost(rodent_orders),
                     order_count |-> Len(rodent_orders),
                     unique_restaurants |->
                         Cardinality({r.restaurant_name : r \in Range(rodent_orders)}),
                     orders |-> <<>>])

\* AnalyticsService.get_rodent_orders past its first early return, given the
\* merged frame (rodent_violations is not empty here)
get_rodent_orders(inspections_df, m) ==
    IF "camis" \notin m.cols THEN Raise("KeyError")
    ELSE
    LET rodent_violations == _find_rodent_violations(inspections_df)
        rodent_camis == {r.camis : r \in Range(rodent_violations)}
        rodent_orders == SelectSeq(m.rows, LAMBDA r : r.camis \in rodent_camis)
    IN  IF IsEmpty(rodent_orders) THEN Return(NoRodentOrders)
        ELSE LET entries == MergeRodentDetails(rodent_orders, RodentDetails(rodent_violations))
             IN  Return([total_rodent_revenue |->
                             SumCost([i \in 1..Len(entries) |->
                                        [cost_of_the_order |-> entries[i].cost]]),
                         order_count |-> Len(entries),
                         unique_restaurants |->
                             Cardinality({e.restaurant_name : e \in Range(entries)}),
                         \* rodent_orders.head(100)
                         orders |-> SubSeq(entries, 1, IF Len(entries) < 100 THEN Len(entries) ELSE 100)])

\* str(value).upper() of a description cell: a null cell reads "NAN"
DescUpper(v) == IF IsNa(v) THEN <<"N","A","N">> ELSE Upper(v)

\* Mutant of ViolationCategory: the four categories are tried in the reverse
\* order, pest first and rodent last.
ViolationCategoryLastMatch(v) ==
    LET desc == DescUpper(v)
        Has(w) == Contains(desc, w)
    IN  IF Has(<<"P","E","S","T">>) \/ Has(<<"I","N","S","E","C","T">>)
           \/ Has(<<"F","L","Y">>) \/ Has(<<"R","O","A","C","H">>) THEN "pest"
        ELSE IF Has(<<"S","A","N","I","T">>) \/ Has(<<"C","L","E","A","N">>) THEN "sanitation"
        ELSE IF Has(<<"F","O","O","D">>)
                /\ (Has(<<"T","E","M","P","E","R","A","T","U","R","E">>)
                    \/ Has(<<"C","O","L","D">>) \/ Has(<<"H","O","T">>)) THEN "temperature"
        ELSE IF \E kw \in RODENT_KEYWORDS : Has(kw) THEN "rodent"
        ELSE ""

\* Mutant of ViolationCategory: the rodent keywords are matched as whole
\* words (between spaces or the ends of the description), not as substrings.
ViolationCategoryWholeWord(v) ==
    LET desc == DescUpper(v)
        Has(w) == Contains(desc, w)
        padded == <<" ">> \o desc \o <<" ">>
    IN  IF \E kw \in RODENT_KEYWORDS : Contains(padded, <<" ">> \o kw \o <<" ">>) THEN "rodent"
        ELSE IF Has(<<"F","O","O","D">>)
                /\ (Has(<<"T","E","M","P","E","R","A","T","U","R","E">>)
                    \/ Has(<<"C","O","L","D">>) \/ Has(<<"H","O","T">>)) THEN "temperature"
        ELSE IF Has(<<"S","A","N","I","T">>) \/ Has(<<"C","L","E","A","N">>) THEN "sanitation"
        ELSE IF Has(<<"P","E","S","T">>) \/ Has(<<"I","N","S","E","C","T">>)
                \/ Has(<<"F","L","Y">>) \/ Has(<<"R","O","A","C","H">>) THEN "pest"
        ELSE ""

\* The category the loop of get_borough_breakdown adds a row's cost to, ""
\* when it adds it to none
ViolationCategory(v) ==
    LET desc == DescUpper(v)
        Has(w) == Contains(desc, w)
    IN  IF \E kw \in RODENT_KEYWORDS : Has(kw) THEN "rodent"
        ELSE IF Has(<<"F","O","O","D">>)
                /\ (Has(<<"T","E","M","P","E","R","A","T","U","R","E">>)
                    \/ Has(<<"C","O","L","D">>) \/ Has(<<"H","O","T">>)) THEN "temperature"
        ELSE IF Has(<<"S","A","N","I","T">>) \/ Has(<<"C","L","E","A","N">>) THEN "sanitation"
        ELSE IF Has(<<"P","E","S","T">>) \/ Has(<<"I","N","S","E","C","T">>)
                \/ Has(<<"F","L","Y">>) \/ Has(<<"R","O","A","C","H">>) THEN "pest"
        ELSE ""

\* Mutant of get_borough_breakdown: a borough's revenue is the cost of its
\* first order, not the sum over its orders.
BoroughBreakdownFirstOrder(self, orders_df, m) ==
    LET total_revenue == SumCost(orders_df)
        enrich == "boro" \notin m.cols \/ \A r \in Range(m.rows) : IsNa(r.boro)
        enriched == IF enrich THEN enrich_orders_with_boro(self, m) ELSE Return(m)
    IN  IF ~Returned(enriched) THEN enriched
        ELSE
        LET df == enriched.value
            keys == SortedTexts({r.boro : r \in {x \in Range(df.rows) : ~IsNa(x.boro)}})
            Stat(b) ==
                LET rows == SelectSeq(df.rows, LAMBDA r : r.boro = b)
                IN  [borough |-> b, revenue |-> Head(rows).cost_of_the_order,
                     order_count |-> Len(rows),
                     percentage |-> Percentage(Head(rows).cost_of_the_order, total_revenue)]
        IN  Return([total_revenue |-> total_revenue,
                    boroughs |-> [i \in 1..Len(keys) |-> Stat(keys[i])],
                    violation_categories |-> <<>>])

\* AnalyticsService.get_borough_breakdown, given the merged frame.  The
\* top_violation_category of a borough (the mode of its descriptions, ties
\* left open by the source) is not part of the modelled result.
get_borough_breakdown(self, orders_df, m) ==
    LET total_revenue == SumCost(orders_df)
        enrich == "boro" \notin m.cols \/ \A r \in Range(m.rows) : IsNa(r.boro)
        enriched == IF enrich THEN enrich_orders_with_boro(self, m) ELSE Return(m)
    IN  IF ~Returned(enriched) THEN enriched
        ELSE
        LET df == enriched.value
            keys == SortedTexts({r.boro : r \in {x \in Range(df.rows) : ~IsNa(x.boro)}})
            Stat(b) ==
                LET rows == SelectSeq(df.rows, LAMBDA r : r.boro = b)
                IN  [borough |-> b, revenue |-> SumCost(rows), order_count |-> Len(rows),
                     percentage |-> Percentage(SumCost(rows), total_revenue)]
            cats == IF "violation_description" \in df.cols
                    THEN {ViolationCategory(r.violation_description) : r \in Range(df.rows)} \ {""}
                    ELSE {}
        IN  Return([total_revenue |-> total_revenue,
                    boroughs |-> [i \in 1..Len(keys) |-> Stat(keys[i])],
                    violation_categories |->
                        [c \in cats |->
                            SumCost(SelectSeq(df.rows,
                                LAMBDA r : ViolationCategory(r.violation_description) = c))]])


\* Mutant of get_risk_flags: the flags are computed from the first row of the
\* camis only, not from all its rows.
RiskFlagsOfOneRow(inspections_df, camis, latest_grade) ==
    LET all_rows == SelectSeq(inspections_df, LAMBDA r : r.camis = camis)
        restaurant_inspections == SubSeq(all_rows, 1, IF all_rows = <<>> THEN 0 ELSE 1)
        critical_count == Len(SelectSeq(restaurant_inspections,
                                        LAMBDA r : IsCritical(r.critical_flag)))
        rodent_count == Len(SelectSeq(restaurant_inspections,
                              LAMBDA r : StrContains(r.violation_description, RODENT_KEYWORDS)))
        closure == \E r \in Range(restaurant_inspections) : StrContains(r.action, CLOSURE_KEYWORDS)
    IN  IF IsEmpty(restaurant_inspections)
        THEN [flags |-> <<>>, critical |-> 0, rodent |-> 0]
        ELSE [flags |->
                (IF critical_count > 0
                 THEN <<[flag |-> "critical violations", n |-> critical_count]>> ELSE <<>>)
                \o (IF rodent_count > 0
                    THEN <<[flag |-> "rodent violations", n |-> rodent_count]>> ELSE <<>>)
                \o (IF closure THEN <<[flag |-> "closure history"]>> ELSE <<>>)
                \o (IF latest_grade \in RISK_GRADES
                    THEN <<[flag |-> "grade", grade |-> latest_grade]>> ELSE <<>>),
              critical |-> critical_count, rodent |-> rodent_count]

\* get_watchlist.get_risk_flags(camis), with the grade of the row that
\* sort_values("grade_date", ascending=False) put first given as latest_grade
RiskFlags(inspections_df, camis, latest_grade) ==
    LET restaurant_inspections == SelectSeq(inspections_df, LAMBDA r : r.camis = camis)
        critical_count == Len(SelectSeq(restaurant_inspections,
                                        LAMBDA r : IsCritical(r.critical_flag)))
        rodent_count == Len(SelectSeq(restaurant_inspections,
                              LAMBDA r : StrContains(r.violation_description, RODENT_KEYWORDS)))
        closure == \E r \in Range(restaurant_inspections) : StrContains(r.action, CLOSURE_KEYWORDS)
    IN  IF IsEmpty(restaurant_inspections)
        THEN [flags |-> <<>>, critical |-> 0, rodent |-> 0]
        ELSE [flags |->
                (IF critical_count > 0
                 THEN <<[flag |-> "critical violations", n |-> critical_count]>> ELSE <<>>)
                \o (IF rodent_count > 0
                    THEN <<[flag |-> "rodent violations", n |-> rodent_count]>> ELSE <<>>)
                \o (IF closure THEN <<[flag |-> "closure history"]>> ELSE <<>>)
                \o (IF latest_grade \in RISK_GRADES
                    THEN <<[flag |-> "grade", grade |-> latest_grade]>> ELSE <<>>),
              critical |-> critical_count, rodent |-> rodent_count]

\* The grades restaurant_inspections.sort_values("grade_date",
\* ascending=False)["grade"].iloc[0] can give for a camis that has rows
LatestGradeChoices(inspections_df, camis) ==
    LET rows == SelectSeq(inspections_df, LAMBDA r : r.camis = camis)
    IN  {Head(sorted).grade :
            sorted \in SortDescChoices(rows, "grade_date", TRUE)}

\* df.head(n)
HeadRows(rows, n) ==
    IF n >= 0 THEN SubSeq(rows, 1, IF n < Len(rows) THEN n ELSE Len(rows))
    ELSE SubSeq(rows, 1, IF Len(rows) + n > 0 THEN Len(rows) + n ELSE 0)

\* at_risk of get_watchlist before it is sorted: the flagged rows of
\* restaurant_stats in group-key order, one frame for each way the grade_date
\* sorts of get_risk_flags can come out
WatchlistAtRisk(inspections_df, m) ==
    LET matched == SelectSeq(m.rows, LAMBDA r : ~IsNa(r.camis))
        names == SortedTexts({r.restaurant_name : r \in Range(matched)})
        \* the (restaurant_name, camis) groups in key order
        GroupsOf(name) ==
            LET ks == SortedTexts({r.camis : r \in {x \in Range(matched) : x.restaurant_name = name}})
            IN  [i \in 1..Len(ks) |-> <<name, ks[i]>>]
        RECURSIVE Keys(_)
        Keys(ns) == IF ns = <<>> THEN <<>> ELSE GroupsOf(Head(ns)) \o Keys(Tail(ns))
        keys == Keys(names)
        camisSet == {k[2] : k \in Range(keys)}
        withRows == {c \in camisSet : \E r \in Range(inspections_df) : r.camis = c}
        Stat(k, grades) ==
            LET g == SelectSeq(matched, LAMBDA r : r.restaurant_name = k[1] /\ r.camis = k[2])
                dates == {r.inspection_date : r \in Range(g)} \ {NaT}
                risk == RiskFlags(inspections_df, k[2],
                                  IF k[2] \in withRows THEN grades[k[2]] ELSE NaN)
            IN  [restaurant_name |-> k[1], camis |-> k[2],
                 revenue |-> SumCost(g), order_count |-> Len(g),
                 latest_grade |-> FirstText(Column(g, "grade")),
                 last_inspection_date |-> IF dates = {} THEN NaT ELSE SetMax(dates),
                 risk_flags |-> risk.flags,
                 critical_violations |-> risk.critical,
                 rodent_violations |-> risk.rodent]
    IN  {SelectSeq([i \in 1..Len(keys) |-> Stat(keys[i], grades)],
                   LAMBDA row : Len(row.risk_flags) > 0)
          : grades \in {f \in [withRows ->
                                 UNION {LatestGradeChoices(inspections_df, c) : c \in withRows}] :
                           \A c \in withRows : f[c] \in LatestGradeChoices(inspections_df, c)} }

\* The response get_watchlist builds from the rows it kept
WatchlistResult(page) ==
    LET Entry(rank, row) ==
            [rank |-> rank, restaurant_name |-> row.restaurant_name, camis |-> row.camis,
             revenue |-> row.revenue, order_count |-> row.order_count,
             latest_grade |-> IF IsNa(row.latest_grade) THEN None ELSE row.latest_grade,
             critical_violations |-> row.critical_violations,
             rodent_violations |-> row.rodent_violations,
             last_inspection_date |-> row.last_inspection_date,
             risk_flags |-> row.risk_flags]
        watchlist == [i \in 1..Len(page) |-> Entry(i, page[i])]
    IN  [restaurants |-> watchlist,
         total_watchlist_revenue |->
             SumCost([i \in 1..Len(watchlist) |-> [cost_of_the_order |-> watchlist[i].revenue]])]

\* Mutant of get_watchlist: the flagged rows are cut to top_n without being
\* sorted by revenue.
WatchlistUnsorted(inspections_df, m, top_n) ==
    IF ~({"restaurant_name", "camis", "grade", "inspection_date"} \subseteq m.cols)
    THEN {Raise("KeyError")}
    ELSE {Return(WatchlistResult(HeadRows(at_risk, top_n))) :
            at_risk \in WatchlistAtRisk(inspections_df, m)}

\* AnalyticsService.get_watchlist, given the merged frame: the results it
\* can return
get_watchlist(inspections_df, m, top_n) ==
    IF ~({"restaurant_name", "camis", "grade", "inspection_date"} \subseteq m.cols)
    THEN {Raise("KeyError")}
    ELSE UNION {{Return(WatchlistResult(HeadRows(sorted, top_n))) :
                    sorted \in SortDescChoices(at_risk, "revenue", FALSE)} :
                at_risk \in WatchlistAtRisk(inspections_df, m)}

RECURSIVE DictOf(_, _, _)
\* {row[key]: row[val] for row in rows}: a later row replaces an equal key
DictOf(rows, key, val) ==
    IF rows = <<>> THEN <<>>
    ELSE LET last_row == rows[Len(rows)]
         IN  DictSet(DictOf(SubSeq(rows, 1, Len(rows) - 1), key, val),
                     last_row[key], last_row[val])

\* The first of a sequence of outcomes that raised, or the last outcome
FirstRaised(outs) ==
    IF \E i \in 1..Len(outs) : ~Returned(outs[i])
    THEN outs[CHOOSE i \in 1..Len(outs) :
                /\ ~Returned(outs[i])
                /\ \A j \in 1..(i - 1) : Returned(outs[j])]
    ELSE outs[Len(outs)]

\* get_summary from the point where matched_orders is known: the five calls
\* in their order, and the dict built from their results
SummaryOf(self, orders_df, inspections_df, m, matched_orders) ==
    LET rodent_data == IF IsEmpty(_find_rodent_violations(inspections_df))
                       THEN Return(NoRodentOrders)
                       ELSE get_rodent_orders(inspections_df, m)
        rar_data == get_revenue_at_risk(m)
        grade_data == get_revenue_by_grade(orders_df, m)
        boro_data == get_borough_breakdown(self, orders_df, m)
        calls == <<rodent_data, rar_data, grade_data, boro_data>>
    IN  IF ~Returned(FirstRaised(calls)) THEN {FirstRaised(calls)}
        ELSE {IF ~Returned(watchlist_data) THEN watchlist_data
              ELSE Return(
                [total_orders |-> Len(orders_df),
                 total_revenue |-> SumCost(orders_df),
                 matched_orders |-> Len(matched_orders),
                 matched_revenue |-> SumCost(matched_orders),
                 rodent_revenue |-> rodent_data.value.total_rodent_revenue,
                 rodent_order_count |-> rodent_data.value.order_count,
                 rodent_restaurant_count |-> rodent_data.value.unique_restaurants,
                 revenue_at_risk |-> rar_data.value.total_revenue_at_risk,
                 risk_order_count |-> rar_data.value.order_count,
                 grade_breakdown |-> DictOf(grade_data.value.grades, "grade", "revenue"),
                 borough_breakdown |-> DictOf(boro_data.value.boroughs, "borough", "revenue"),
                 top_watchlist |-> watchlist_data.value.restaurants]) :
              watchlist_data \in get_watchlist(inspections_df, m, 10)}

\* Mutant of get_summary: every row of the merged frame counts as matched.
SummaryMatchesAll(self, orders_df, inspections_df, m) ==
    IF "camis" \notin m.cols THEN {Raise("KeyError")}
    ELSE SummaryOf(self, orders_df, inspections_df, m, m.rows)

\* AnalyticsService.get_summary, given the merged frame: the outcomes it can
\* have
get_summary(self, orders_df, inspections_df, m) ==
    IF "camis" \notin m.cols THEN {Raise("KeyError")}
    ELSE SummaryOf(self, orders_df, inspections_df, m,
                   SelectSeq(m.rows, LAMBDA r : ~IsNa(r.camis)))

----------------------------------------------------------------------------
(* The inputs of the model: sample texts, and the rows built from them.    *)

T_Joe == <<"J","o","e">>
T_Moe == <<"M","o","e">>
T_Zed == <<"Z","e","d">>
T_JoeClosed == <<"J","o","e"," ","-"," ","C","L","O","S","E","D">>
T_joe == <<"j","o","e">>
T_JOE == <<"J","O","E">>
Camis07 == <<"0","7">>
Camis41 == <<"4","1">>
T_Closed == <<"E","S","T","A","B","L","I","S","H","M","E","N","T"," ","C","L","O","S","E","D">>
T_Cited == <<"V","I","O","L","A","T","I","O","N","S"," ","C","I","T","E","D">>
T_Mice == <<"E","V","I","D","E","N","C","E"," ","O","F"," ","M","I","C","E">>
T_Wiping == <<"W","I","P","I","N","G"," ","C","L","O","T","H","S">>
T_NotCritical == <<"N","o","t"," ","C","r","i","t","i","c","a","l">>
T_Critical == <<"C","r","i","t","i","c","a","l">>
T_Manhattan == <<"M","A","N","H","A","T","T","A","N">>
T_Brooklyn == <<"B","R","O","O","K","L","Y","N">>

\* Sequences over S of length 0..n
SeqsUpTo(S, n) == UNION {[1..k -> S] : k \in 0..n}

\* The parsed reference file of the analytics specification: two
\* restaurants, the second one without a borough
StdItems ==
    << [key |-> T_Joe, val |-> [camis |-> Camis07, boro |-> T_Manhattan]],
       [key |-> T_Moe, val |-> [camis |-> Camis41, boro |-> None]] >>

\* orders_df: the loader numbers nothing; order_id is the file's unique key,
\* here the row's position
OrdersOf(rows) ==
    [i \in 1..Len(rows) |->
        [order_id |-> i, restaurant_name |-> rows[i][1], cost_of_the_order |-> rows[i][2]]]

InspRow(camis, date, grade, action, desc, flag, boro, gdate) ==
    [camis |-> camis, inspection_date |-> date, grade |-> grade, action |-> action,
     violation_description |-> desc, critical_flag |-> flag, boro |-> boro,
     grade_date |-> gdate]

NewMatcher == [state |-> "new", mapping |-> <<>>, normalized |-> <<>>]
NotComputed == [computed |-> FALSE]
\* No orders CSV at csv_path, and the DataLoader before load_orders
NoOrdersFile == [exists |-> FALSE, cols |-> {}, rows |-> <<>>]
NotLoaded == [loaded |-> FALSE]
\* No call of get_analytics_service is modelled, and no NYCInspectionAPI client
NoService == [used |-> FALSE]
NoClient == [used |-> FALSE]
Computed(m) == [computed |-> TRUE, cols |-> m.cols, rows |-> m.rows]

----------------------------------------------------------------------------
(* Actions. *)

\* RestaurantMatcher.__init__
Construct ==
    /\ matcher.state = "new"
    /\ LET r == _load_mapping(mappingFile)
       IN  /\ matcher' = IF Returned(r)
                         THEN [state |-> "ready", mapping |-> r.value.mapping,
                               normalized |-> r.value.normalized]
                         ELSE [matcher EXCEPT !.state = "failed"]
           /\ last' = [op |-> "RestaurantMatcher", arg |-> <<>>,
                       out |-> IF Returned(r) THEN Return(<<>>) ELSE r]
    /\ UNCHANGED <<mappingFile, orders, inspections, merged, query, ordersFile, loader, service, api>>

\* The merged_df property: the cached frame, or the frames the join can give
MergedChoices ==
    IF merged.computed THEN {[cols |-> merged.cols, rows |-> merged.rows]}
    ELSE match_orders_to_inspections(matcher, orders, inspections)

\* RestaurantMatcher.match_orders_to_inspections(orders_df, inspections_df)
MatchOrders ==
    /\ matcher.state = "ready"
    /\ \E m \in match_orders_to_inspections(matcher, orders, inspections) :
        last' = [op |-> "match_orders_to_inspections", arg |-> <<>>, out |-> Return(m)]
    /\ UNCHANGED <<mappingFile, orders, inspections, matcher, merged, query, ordersFile, loader, service, api>>

GetRevenueByGrade ==
    /\ matcher.state = "ready"
    /\ \E m \in MergedChoices :
        /\ merged' = Computed(m)
        /\ last' = [op |-> "get_revenue_by_grade", arg |-> <<>>,
                    out |-> get_revenue_by_grade(orders, m)]
    /\ UNCHANGED <<mappingFile, orders, inspections, matcher, query, ordersFile, loader, service, api>>

GetRevenueAtRisk ==
    /\ matcher.state = "ready"
    /\ \E m \in MergedChoices :
        /\ merged' = Computed(m)
        /\ last' = [op |-> "get_revenue_at_risk", arg |-> <<>>, out |-> get_revenue_at_risk(m)]
    /\ UNCHANGED <<mappingFile, orders, inspections, matcher, query, ordersFile, loader, service, api>>

\* get_rodent_orders returns before it reads merged_df when no inspection
\* row has a rodent keyword
GetRodentOrders ==
    /\ matcher.state = "ready"
    /\ IF IsEmpty(_find_rodent_violations(inspections))
       THEN /\ merged' = merged
            /\ last' = [op |-> "get_rodent_orders", arg |-> <<>>, out |-> Return(NoRodentOrders)]
       ELSE \E m \in MergedChoices :
            /\ merged' = Computed(m)
            /\ last' = [op |-> "get_rodent_orders", arg |-> <<>>,
                        out |-> get_rodent_orders(inspections, m)]
    /\ UNCHANGED <<mappingFile, orders, inspections, matcher, query, ordersFile, loader, service, api>>

GetBoroughBreakdown ==
    /\ matcher.state = "ready"
    /\ \E m \in MergedChoices :
        /\ merged' = Computed(m)
        /\ last' = [op |-> "get_borough_breakdown", arg |-> <<>>,
                    out |-> get_borough_breakdown(matcher, orders, m)]
    /\ UNCHANGED <<mappingFile, orders, inspections, matcher, query, ordersFile, loader, service, api>>

\* The values of top_n the model calls get_watchlist with
TopNs == {0, 1, 10}

GetWatchlist ==
    /\ matcher.state = "ready"
    /\ \E top_n \in TopNs : \E m \in MergedChoices :
        /\ merged' = Computed(m)
        /\ \E out \in get_watchlist(inspections, m, top_n) :
            last' = [op |-> "get_watchlist", arg |-> top_n, out |-> out]
    /\ UNCHANGED <<mappingFile, orders, inspections, matcher, query, ordersFile, loader, service, api>>

----------------------------------------------------------------------------
(* Spec: the analytics service over small snapshots.  The reference file   *)
(* knows two restaurants; the order names are one that resolves only       *)
(* through normalization, one that is a key of the file, and an unknown    *)
(* one.  The inspection rows are as _clean_inspection_data leaves them     *)
(* (texts upper-cased but for critical_flag, a missing grade "", a missing *)
(* grade_date NaT); two rows of a restaurant may carry the same            *)
(* inspection_date.                                                        *)

StdFile == [state |-> "ok", items |-> StdItems]
OrderNames == {T_JoeClosed, T_Moe, T_Zed}
Costs == {0, 2000}
InspRows ==
    { InspRow(Camis07, 1, <<"A">>, T_Cited, T_Wiping, T_NotCritical, T_Manhattan, 1),
      InspRow(Camis07, 2, <<"C">>, T_Cited, T_Mice, T_Critical, T_Manhattan, 2),
      InspRow(Camis07, 2, <<>>, T_Cited, T_Wiping, T_NotCritical, T_Manhattan, NaT),
      InspRow(Camis41, 1, <<"A">>, T_Cited, T_Mice, T_NotCritical, T_Brooklyn, 1),
      InspRow(Camis41, 2, <<"P">>, T_Closed, T_Wiping, T_NotCritical, T_Brooklyn, 2),
      InspRow(Camis41, 2, <<>>, T_Cited, T_Wiping, T_Critical, T_Brooklyn, NaT) }

Init ==
    /\ mappingFile = StdFile
    /\ orders \in {OrdersOf(rows) : rows \in SeqsUpTo(OrderNames \X Costs, MaxOrders)}
    /\ inspections \in SeqsUpTo(InspRows, MaxInsp)
    /\ matcher = NewMatcher
    /\ merged = NotComputed
    /\ query = <<>>
    /\ ordersFile = NoOrdersFile
    /\ loader = NotLoaded
    /\ service = NoService
    /\ api = NoClient
    /\ last = [op |-> "start", arg |-> <<>>, out |-> Return(<<>>)]

Next ==
    \/ Construct
    \/ MatchOrders
    \/ GetRevenueByGrade
    \/ GetRevenueAtRisk
    \/ GetRodentOrders
    \/ GetBoroughBreakdown
    \/ GetWatchlist

Spec == Init /\ [][Next]_vars

----------------------------------------------------------------------------
(* SpecSummary: the composite summary over the snapshots of Spec.           *)

GetSummary ==
    /\ matcher.state = "ready"
    /\ \E m \in MergedChoices :
        /\ merged' = Computed(m)
        /\ \E out \in get_summary(matcher, orders, inspections, m) :
            last' = [op |-> "get_summary", arg |-> <<>>, out |-> out]
    /\ UNCHANGED <<mappingFile, orders, inspections, matcher, query, ordersFile, loader, service, api>>

NextSummary ==
    \/ Construct
    \/ GetSummary

SpecSummary == Init /\ [][NextSummary]_vars

----------------------------------------------------------------------------
(* SpecLoad: DataLoader.load_orders over small CSV files.  A file is       *)
(* [exists, cols, rows]; a cell is the text pd.read_csv finds, or NaN for  *)
(* an empty cell.  A number is [units, scale]: units / 10^scale.           *)

MaxCsvRows == 2

\* The cells of the model's files.  The cost cells that are decimal numerals,
\* each with the number it denotes, and the ones that are not
NumeralCosts ==
    { <<<<"2","0",".","0","0">>, [units |-> 2000, scale |-> 2]>>,
      <<<<"0">>, [units |-> 0, scale |-> 0]>>,
      <<<<"-","5">>, [units |-> -5, scale |-> 0]>>,
      <<<<" ","1","2",".","5">>, [units |-> 125, scale |-> 1]>> }
MalformedCosts == { <<"a","b","c">>, <<"$","2","0">>, <<"1",".","2",".","3">>, NaN }
CsvCosts == {c[1] : c \in NumeralCosts} \cup MalformedCosts
CsvNames == { T_Joe, <<" ","\"","M","o","e","\""," ">> }

REQUIRED_COLS ==
    {"order_id", "customer_id", "restaurant_name", "cuisine_type",
     "cost_of_the_order", "day_of_the_week", "rating",
     "food_preparation_time", "delivery_time"}

\* The NaN of a numeric column, and series.isna() for one of its values
FloatNaN == [nan |-> TRUE]
IsFloatNaN(v) == v = FloatNaN

DigitSeq == <<"0","1","2","3","4","5","6","7","8","9">>
DigitVal(c) == (CHOOSE i \in 1..10 : DigitSeq[i] = c) - 1

RECURSIVE DigitsValue(_)
\* The integer a string of digits denotes
DigitsValue(ds) ==
    IF ds = <<>> THEN 0
    ELSE 10 * DigitsValue(SubSeq(ds, 1, Len(ds) - 1)) + DigitVal(ds[Len(ds)])

\* pd.to_numeric(series, errors="coerce") for one cell: the number a decimal
\* numeral denotes (blanks around it, a sign, digits, a point), the NaN of
\* the column for an empty cell and for any other text.  Exponents and the words inf and nan
\* are not told apart from other text: no cell of the model has them.
to_numeric(cell) ==
    IF IsNa(cell) THEN FloatNaN
    ELSE
    LET s == Strip(cell)
        signed == s # <<>> /\ Head(s) \in {"+", "-"}
        body == IF signed THEN Tail(s) ELSE s
        points == {i \in 1..Len(body) : body[i] = "."}
        whole == IF points = {} THEN body ELSE SubSeq(body, 1, SetMin(points) - 1)
        frac == IF points = {} THEN <<>> ELSE SubSeq(body, SetMin(points) + 1, Len(body))
        ok == /\ Cardinality(points) <= 1
              /\ \A i \in 1..Len(whole) : whole[i] \in DIGITS
              /\ \A i \in 1..Len(frac) : frac[i] \in DIGITS
              /\ Len(whole) + Len(frac) > 0
    IN  IF ~ok THEN FloatNaN
        ELSE [units |-> (IF signed /\ Head(s) = "-" THEN -1 ELSE 1) * DigitsValue(whole \o frac),
              scale |-> Len(frac)]

\* series.astype(str).str.strip().str.strip('"').str.strip() for one cell: an
\* empty cell reads "nan"
CleanName(cell) ==
    LET s == IF IsNa(cell) THEN <<"n","a","n">> ELSE cell
    IN  Strip(StripSet(Strip(s), {"\""}))

\* A row of the file after the conversions of _clean_orders
CleanedRow(r) ==
    [order_id |-> r.order_id,
     restaurant_name |-> CleanName(r.restaurant_name),
     cost_of_the_order |-> to_numeric(r.cost_of_the_order)]

\* Mutant of _clean_orders: a cost that does not parse is replaced by 0 and
\* its row is kept.
CleanOrdersZeroFill(df) ==
    IF ~(REQUIRED_COLS \subseteq df.cols) THEN Raise("ValueError")
    ELSE LET cleaned == [i \in 1..Len(df.rows) |-> CleanedRow(df.rows[i])]
         IN  Return([cols |-> df.cols \cup {"rating_numeric"},
                     rows |-> [i \in 1..Len(cleaned) |->
                                 IF IsFloatNaN(cleaned[i].cost_of_the_order)
                                 THEN [cleaned[i] EXCEPT !.cost_of_the_order =
                                                            [units |-> 0, scale |-> 0]]
                                 ELSE cleaned[i]]])

\* DataLoader._clean_orders
_clean_orders(df) ==
    IF ~(REQUIRED_COLS \subseteq df.cols) THEN Raise("ValueError")
    ELSE LET cleaned == [i \in 1..Len(df.rows) |-> CleanedRow(df.rows[i])]
         IN  Return([cols |-> df.cols \cup {"rating_numeric"},
                     rows |-> SelectSeq(cleaned, LAMBDA r : ~IsFloatNaN(r.cost_of_the_order))])

\* DataLoader.load_orders: what it returns or raises, and the frame it caches
load_orders(self, file) ==
    IF self.loaded THEN Return([cols |-> self.cols, rows |-> self.rows])
    ELSE IF ~file.exists THEN Raise("FileNotFoundError")
    ELSE LET df == _clean_orders([cols |-> file.cols, rows |-> file.rows])
         IN  IF ~Returned(df) THEN df
             ELSE Return([cols |-> df.value.cols \cup {"restaurant_name_normalized"},
                          rows |-> [i \in 1..Len(df.value.rows) |->
                                      [order_id |-> df.value.rows[i].order_id,
                                       restaurant_name |-> df.value.rows[i].restaurant_name,
                                       cost_of_the_order |-> df.value.rows[i].cost_of_the_order,
                                       restaurant_name_normalized |->
                                           normalize_restaurant_name(
                                               df.value.rows[i].restaurant_name)]]])

LoadOrders ==
    /\ LET out == load_orders(loader, ordersFile)
       IN  /\ loader' = IF Returned(out)
                        THEN [loaded |-> TRUE, cols |-> out.value.cols, rows |-> out.value.rows]
                        ELSE loader
           /\ last' = [op |-> "load_orders", arg |-> <<>>, out |-> out]
    /\ UNCHANGED <<mappingFile, orders, inspections, matcher, merged, query, ordersFile, service, api>>

InitLoad ==
    /\ mappingFile = StdFile
    /\ orders = <<>>
    /\ inspections = <<>>
    /\ matcher = NewMatcher
    /\ merged = NotComputed
    /\ query = <<>>
    /\ ordersFile \in {NoOrdersFile} \cup
          {[exists |-> TRUE, cols |-> cols,
            rows |-> [i \in 1..Len(cells) |->
                        [order_id |-> i, restaurant_name |-> cells[i][1],
                         cost_of_the_order |-> cells[i][2]]]] :
             cols \in {REQUIRED_COLS, REQUIRED_COLS \ {"cost_of_the_order"},
                       REQUIRED_COLS \cup {"note"}},
             cells \in SeqsUpTo(CsvNames \X CsvCosts, MaxCsvRows)}
    /\ loader = NotLoaded
    /\ service = NoService
    /\ api = NoClient
    /\ last = [op |-> "start", arg |-> <<>>, out |-> Return(<<>>)]

NextLoad ==
    \/ LoadOrders

SpecLoad == InitLoad /\ [][NextLoad]_vars

----------------------------------------------------------------------------
(* SpecBorough: the borough breakdown over three restaurants in three       *)
(* boroughs, with costs whose shares of the total do not round evenly.  An  *)
(* order has no borough when there are inspections but none of its camis.   *)

MaxBoroOrders == 3

T_Queens == <<"Q","U","E","E","N","S">>
Camis99 == <<"9","9">>
BoroFile ==
    [state |-> "ok",
     items |-> << [key |-> T_Joe, val |-> [camis |-> Camis07, boro |-> T_Manhattan]],
                  [key |-> T_Moe, val |-> [camis |-> Camis41, boro |-> T_Brooklyn]],
                  [key |-> T_Zed, val |-> [camis |-> Camis99, boro |-> T_Queens]] >>]
BoroCosts == {0, 1000}
BoroInspRows ==
    { InspRow(Camis07, 1, <<"A">>, T_Cited, T_Wiping, T_NotCritical, T_Manhattan, 1),
      InspRow(Camis41, 1, <<"A">>, T_Cited, T_Mice, T_NotCritical, T_Brooklyn, 1),
      InspRow(Camis99, 1, <<"A">>, T_Cited, T_Wiping, T_NotCritical, T_Queens, 1) }

InitBorough ==
    /\ mappingFile = BoroFile
    /\ orders \in {OrdersOf(rows) :
                     rows \in SeqsUpTo({T_Joe, T_Moe, T_Zed} \X BoroCosts, MaxBoroOrders)}
    /\ inspections \in SeqsUpTo(BoroInspRows, MaxInsp)
    /\ matcher = NewMatcher
    /\ merged = NotComputed
    /\ query = <<>>
    /\ ordersFile = NoOrdersFile
    /\ loader = NotLoaded
    /\ service = NoService
    /\ api = NoClient
    /\ last = [op |-> "start", arg |-> <<>>, out |-> Return(<<>>)]

NextBorough ==
    \/ Construct
    \/ GetBoroughBreakdown

SpecBorough == InitBorough /\ [][NextBorough]_vars

----------------------------------------------------------------------------
(* SpecLatest: the two latest-graded reductions over small inspection       *)
(* collections.  Rows of one restaurant may share a grade_date (one row per *)
(* violation of an inspection), lack a grade ("") or a grade_date, and lack *)
(* a critical_flag (the cleaning step leaves that column as it came).       *)

MaxLatestRows == 3

\* AnalyticsService._compute_latest_grades: the frames it can return
_compute_latest_grades(inspections_df) ==
    IF IsEmpty(inspections_df) THEN {EmptyFrame}
    ELSE LET graded == SelectSeq(inspections_df, LAMBDA r : r.grade \in GRADED)
         IN  IF IsEmpty(graded) THEN {EmptyFrame}
             ELSE {[cols |-> InspectionCols, rows |-> GroupFirst(sorted)] :
                     sorted \in SortDescChoices(graded, "grade_date", TRUE)}

\* NYCOpenDataClient.get_latest_grades: the frames it can return, with the
\* columns of latest[["camis", "dba", "boro", "grade", "grade_date", "score"]]
\* that the model has
get_latest_grades(df) ==
    IF IsEmpty(df) THEN {EmptyFrame}
    ELSE LET graded == SelectSeq(df, LAMBDA r : r.grade \in GRADED)
         IN  IF IsEmpty(graded) THEN {EmptyFrame}
             ELSE {[cols |-> {"camis", "boro", "grade", "grade_date"},
                    rows |-> [i \in 1..Len(GroupFirst(sorted)) |->
                                [camis |-> GroupFirst(sorted)[i].camis,
                                 boro |-> GroupFirst(sorted)[i].boro,
                                 grade |-> GroupFirst(sorted)[i].grade,
                                 grade_date |-> GroupFirst(sorted)[i].grade_date]]] :
                     sorted \in SortDescChoices(graded, "grade_date", TRUE)}

ComputeLatestGrades ==
    /\ \E out \in _compute_latest_grades(inspections) :
        last' = [op |-> "_compute_latest_grades", arg |-> <<>>, out |-> Return(out)]
    /\ UNCHANGED <<mappingFile, orders, inspections, matcher, merged, query, ordersFile, loader, service, api>>

GetLatestGrades ==
    /\ \E out \in get_latest_grades(inspections) :
        last' = [op |-> "get_latest_grades", arg |-> <<>>, out |-> Return(out)]
    /\ UNCHANGED <<mappingFile, orders, inspections, matcher, merged, query, ordersFile, loader, service, api>>

LatestRows ==
    { InspRow(Camis07, 1, <<"B">>, T_Cited, T_Mice, T_Critical, T_Manhattan, 1),
      InspRow(Camis07, 2, <<"A">>, T_Cited, T_Wiping, T_NotCritical, T_Manhattan, 2),
      InspRow(Camis07, 2, <<"A">>, T_Cited, <<>>, NaN, T_Manhattan, 2),
      InspRow(Camis07, 3, <<>>, T_Cited, T_Wiping, T_NotCritical, T_Manhattan, NaT),
      InspRow(Camis41, 1, <<"Z">>, T_Closed, T_Wiping, T_NotCritical, T_Brooklyn, NaT),
      InspRow(Camis41, 2, <<"G">>, T_Cited, T_Wiping, T_Critical, T_Brooklyn, 2) }

InitLatest ==
    /\ mappingFile = StdFile
    /\ orders = <<>>
    /\ inspections \in SeqsUpTo(LatestRows, MaxLatestRows)
    /\ matcher = NewMatcher
    /\ merged = NotComputed
    /\ query = <<>>
    /\ ordersFile = NoOrdersFile
    /\ loader = NotLoaded
    /\ service = NoService
    /\ api = NoClient
    /\ last = [op |-> "start", arg |-> <<>>, out |-> Return(<<>>)]

NextLatest ==
    \/ ComputeLatestGrades
    \/ GetLatestGrades

SpecLatest == InitLatest /\ [][NextLatest]_vars

----------------------------------------------------------------------------
(* SpecResolve: the resolver over reference files that are missing,        *)
(* unreadable, not JSON, or an object of up to MaxEntries entries, and the *)
(* lookups of one name in the constructed resolver.                        *)

MaxEntries == 2    \* entries of the reference file

T_Meta == <<"_","m","e","t","a">>
FileKeys == {T_Joe, T_joe, T_JoeClosed, T_Meta}
FileVals == {[camis |-> Camis07, boro |-> T_Manhattan], [camis |-> Camis41, boro |-> None]}
QueryNames == {T_Joe, T_joe, T_JOE, T_JoeClosed, T_Zed, T_Meta}

\* The objects json.load can return: the keys of an object are distinct
FileItems ==
    {items \in SeqsUpTo([key : FileKeys, val : FileVals], MaxEntries) :
        \A i, j \in 1..Len(items) : items[i].key = items[j].key => i = j}

ResolveFiles ==
    {[state |-> st, items |-> <<>>] : st \in {"missing", "unreadable", "invalid"}}
        \cup {[state |-> "ok", items |-> items] : items \in FileItems}

\* RestaurantMatcher.get_camis(query)
GetCamis ==
    /\ matcher.state = "ready"
    /\ last' = [op |-> "get_camis", arg |-> query, out |-> Return(get_camis(matcher, query))]
    /\ UNCHANGED <<mappingFile, orders, inspections, matcher, merged, query, ordersFile, loader, service, api>>

\* RestaurantMatcher.get_restaurant_info(query)
GetRestaurantInfo ==
    /\ matcher.state = "ready"
    /\ last' = [op |-> "get_restaurant_info", arg |-> query,
                out |-> Return(get_restaurant_info(matcher, query))]
    /\ UNCHANGED <<mappingFile, orders, inspections, matcher, merged, query, ordersFile, loader, service, api>>

InitResolve ==
    /\ mappingFile \in ResolveFiles
    /\ orders = <<>>
    /\ inspections = <<>>
    /\ matcher = NewMatcher
    /\ merged = NotComputed
    /\ query \in QueryNames
    /\ ordersFile = NoOrdersFile
    /\ loader = NotLoaded
    /\ service = NoService
    /\ api = NoClient
    /\ last = [op |-> "start", arg |-> <<>>, out |-> Return(<<>>)]

NextResolve ==
    \/ Construct
    \/ GetCamis
    \/ GetRestaurantInfo

SpecResolve == InitResolve /\ [][NextResolve]_vars

----------------------------------------------------------------------------
(* SpecNorm: normalize_restaurant_name applied to a raw name, and then to  *)
(* its own result.  The raw names are the concatenations of up to MaxWords *)
(* words: a stem, a quote, a space, and one suffix for each kind of rule.  *)

Words ==
    { T_Joe, <<"\"">>, <<" ">>,
      <<" ","-"," ","C","L","O","S","E","D">>,
      <<" ","-"," ","$","5"," ","o","f","f"," ","n","o","w">>,
      <<" ","$","0",".","9"," ","D","e","l","i","v","e","r","y"," ","F","e","e">>,
      <<" ","(","a","r","c","h","i","v","e","d",")">>,
      <<" ","-","u","e","s">>,
      <<" ","H","u","d","s","o","n">> }

RECURSIVE Concat(_)
Concat(ws) == IF ws = <<>> THEN <<>> ELSE Head(ws) \o Concat(Tail(ws))

RawNames == {Concat(ws) : ws \in SeqsUpTo(Words, MaxWords)}

\* re.search(pattern, s) succeeds for some pattern of NAME_SUFFIXES
MatchesSomeSuffix(s) == \E i \in 1..Len(NAME_SUFFIXES) : Matches(NAME_SUFFIXES[i], s)

\* DataLoader.normalize_restaurant_name(query)
NormalizeName ==
    /\ last.op = "start"
    /\ last' = [op |-> "normalize_restaurant_name", arg |-> query,
                out |-> Return(normalize_restaurant_name(query))]
    /\ UNCHANGED <<mappingFile, orders, inspections, matcher, merged, query, ordersFile, loader, service, api>>

\* DataLoader.normalize_restaurant_name applied to the result of the call before
NormalizeAgain ==
    /\ last.op = "normalize_restaurant_name"
    /\ last' = [op |-> "normalize_again", arg |-> last.out.value,
                out |-> Return(normalize_restaurant_name(last.out.value))]
    /\ UNCHANGED <<mappingFile, orders, inspections, matcher, merged, query, ordersFile, loader, service, api>>

InitNorm ==
    /\ mappingFile = StdFile
    /\ orders = <<>>
    /\ inspections = <<>>
    /\ matcher = NewMatcher
    /\ merged = NotComputed
    /\ query \in RawNames \cup {None, NaN}
    /\ ordersFile = NoOrdersFile
    /\ loader = NotLoaded
    /\ service = NoService
    /\ api = NoClient
    /\ last = [op |-> "start", arg |-> <<>>, out |-> Return(<<>>)]

NextNorm ==
    \/ NormalizeName
    \/ NormalizeAgain

SpecNorm == InitNorm /\ [][NextNorm]_vars

----------------------------------------------------------------------------
(* The claims.  A claim about the value an operation returns is stated of  *)
(* the states in which the operation has returned; the inputs on which the *)
(* analytic operations raise instead are the subject of C5 and C6.         *)

RECURSIVE SumSeq(_)
\* The sum of a sequence of numbers
SumSeq(s) == IF s = <<>> THEN 0 ELSE Head(s) + SumSeq(Tail(s))

\* The orders with an order_id in ids
OrdersWithId(ids) == SelectSeq(orders, LAMBDA o : o.order_id \in ids)

\* The predicates of revenue at risk that the enriched row r satisfies
RiskPredicates(r) ==
    {k \in {"closed", "grade_c", "grade_pending", "critical_violation"} :
        \/ k = "closed" /\ StrContains(r.action, CLOSURE_KEYWORDS)
        \/ k = "grade_c" /\ r.grade = <<"C">>
        \/ k = "grade_pending" /\ r.grade \in {<<"P">>, <<"N">>, <<"Z">>}
        \/ k = "critical_violation" /\ IsCritical(r.critical_flag)}

\* The operation of last has returned
Did(op) == last.op = op /\ Returned(last.out)

\* C1: match_orders_to_inspections returns exactly one enriched row per input
\* order, in the order of the input: no order is dropped and none is
\* duplicated, whatever the inspections are (none, or many rows per camis).
JoinCardinality ==
    last.op = "match_orders_to_inspections" =>
        /\ Returned(last.out)
        /\ Len(last.out.value.rows) = Len(orders)
        /\ \A i \in 1..Len(orders) :
            Cardinality({j \in 1..Len(last.out.value.rows) :
                            last.out.value.rows[j].order_id = orders[i].order_id}) = 1

\* The join has returned for an order whose restaurant has two inspection rows.
JoinCardinalityWitness ==
    /\ Did("match_orders_to_inspections")
    /\ \E r \in Range(last.out.value.rows) :
        Cardinality({i \in 1..Len(inspections) : inspections[i].camis = r.camis}) >= 2

\* C2: whenever get_revenue_at_risk returns, total_revenue_at_risk is the sum
\* of cost over the distinct orders whose enriched row satisfies at least one
\* of the four predicates, and order_count is the number of those orders.
RarCountsEachOrderOnce ==
    Did("get_revenue_at_risk") =>
        LET ids == {r.order_id : r \in {x \in Range(merged.rows) : RiskPredicates(x) # {}}}
        IN  /\ last.out.value.total_revenue_at_risk = SumCost(OrdersWithId(ids))
            /\ last.out.value.order_count = Cardinality(ids)

\* get_revenue_at_risk has returned for an order with a cost that satisfies
\* several predicates.
RarCountsEachOrderOnceWitness ==
    /\ Did("get_revenue_at_risk")
    /\ \E r \in Range(merged.rows) :
        Cardinality(RiskPredicates(r)) >= 2 /\ r.cost_of_the_order > 0

\* The sum of the four category sub-totals of a get_revenue_at_risk result
SubTotals(v) ==
    v.breakdown.closed + v.breakdown.grade_c + v.breakdown.grade_pending
        + v.breakdown.critical_violation

\* C3, as stated: whenever get_revenue_at_risk returns, the union total is at
\* most the sum of the four category sub-totals, and the two are equal if and
\* only if no order satisfies more than one predicate.
RarEqualIffNoOverlap ==
    Did("get_revenue_at_risk") =>
        /\ last.out.value.total_revenue_at_risk <= SubTotals(last.out.value)
        /\ (last.out.value.total_revenue_at_risk = SubTotals(last.out.value))
            <=> ~ \E r \in Range(merged.rows) : Cardinality(RiskPredicates(r)) > 1

\* C3, amended: whenever get_revenue_at_risk returns, the union total is at
\* most the sum of the four category sub-totals, and the two are equal if and
\* only if no order with a cost above 0 satisfies more than one predicate.
RarEqualIffNoPaidOverlap ==
    Did("get_revenue_at_risk") =>
        /\ last.out.value.total_revenue_at_risk <= SubTotals(last.out.value)
        /\ (last.out.value.total_revenue_at_risk = SubTotals(last.out.value))
            <=> ~ \E r \in Range(merged.rows) :
                    Cardinality(RiskPredicates(r)) > 1 /\ r.cost_of_the_order > 0

\* get_revenue_at_risk has returned a total above 0 that equals the sum of
\* the sub-totals, while an order of cost 0 satisfies several predicates.
RarEqualIffNoPaidOverlapWitness ==
    /\ Did("get_revenue_at_risk")
    /\ last.out.value.total_revenue_at_risk > 0
    /\ last.out.value.total_revenue_at_risk = SubTotals(last.out.value)
    /\ \E r \in Range(merged.rows) :
        Cardinality(RiskPredicates(r)) > 1 /\ r.cost_of_the_order = 0

\* C4: whenever get_revenue_by_grade returns, the revenue of the grade
\* buckets plus unmatched_revenue is total_revenue, the sum of cost over all
\* orders; the order counts of the buckets plus unmatched_order_count is the
\* number of orders; every bucket is a grade of {A,B,C,Z,P,N} and holds the
\* orders of that grade, and the unmatched bucket holds every other order
\* (unresolved, or resolved but ungraded).
RevenueConservation ==
    Did("get_revenue_by_grade") =>
        LET v == last.out.value
            Bucket(g) == SelectSeq(merged.rows, LAMBDA r : r.grade = g)
            Others == SelectSeq(merged.rows, LAMBDA r : r.grade \notin GRADED)
        IN  /\ v.total_revenue = SumCost(orders)
            /\ SumSeq([i \in 1..Len(v.grades) |-> v.grades[i].revenue]) + v.unmatched_revenue
                = v.total_revenue
            /\ SumSeq([i \in 1..Len(v.grades) |-> v.grades[i].order_count])
                + v.unmatched_order_count = Len(orders)
            /\ \A i \in 1..Len(v.grades) :
                /\ v.grades[i].grade \in GRADED
                /\ v.grades[i].revenue = SumCost(Bucket(v.grades[i].grade))
                /\ v.grades[i].order_count = Len(Bucket(v.grades[i].grade))
            /\ v.unmatched_revenue = SumCost(Others)
            /\ v.unmatched_order_count = Len(Others)

\* get_revenue_by_grade has returned a grade bucket and an unmatched bucket
\* that holds the cost of a resolved order without a grade.
RevenueConservationWitness ==
    /\ Did("get_revenue_by_grade")
    /\ last.out.value.grades # <<>>
    /\ \E r \in Range(merged.rows) :
        ~IsNa(r.camis) /\ r.grade \notin GRADED /\ r.cost_of_the_order > 0

\* C5, as stated: with no inspections and some orders, no analytic operation
\* raises: get_revenue_by_grade reports all revenue as unmatched and no grade
\* bucket, get_revenue_at_risk a total and an order count of 0,
\* get_rodent_orders zero, and get_watchlist an empty list.
EmptyInspectionsNeverRaise ==
    (inspections = <<>> /\ orders # <<>>) =>
        /\ last.op \in {"get_revenue_by_grade", "get_revenue_at_risk", "get_rodent_orders",
                        "get_watchlist"} => Returned(last.out)
        /\ Did("get_revenue_by_grade") =>
            /\ last.out.value.grades = <<>>
            /\ last.out.value.unmatched_revenue = last.out.value.total_revenue
        /\ Did("get_revenue_at_risk") =>
            /\ last.out.value.total_revenue_at_risk = 0
            /\ last.out.value.order_count = 0
        /\ Did("get_rodent_orders") =>
            /\ last.out.value.total_rodent_revenue = 0
            /\ last.out.value.order_count = 0
        /\ Did("get_watchlist") => last.out.value.restaurants = <<>>

\* C6, as stated: when the total order revenue is 0, get_revenue_by_grade and
\* get_borough_breakdown return, and every percentage they report is 0.
ZeroRevenuePercentagesAreZero ==
    (SumCost(orders) = 0 /\ last.op \in {"get_revenue_by_grade", "get_borough_breakdown"}) =>
        /\ Returned(last.out)
        /\ LET stats == IF last.op = "get_revenue_by_grade"
                        THEN last.out.value.grades ELSE last.out.value.boroughs
           IN  \A i \in 1..Len(stats) :
                  stats[i].percentage.kind = "num" /\ stats[i].percentage.v = 0

\* The reference table of the resolver: the entries of the file whose key is
\* not a metadata key, none when there is no file
ReferenceTable ==
    IF mappingFile.state = "ok"
    THEN SelectSeq(mappingFile.items, LAMBDA it : it.key = <<>> \/ Head(it.key) # "_")
    ELSE <<>>

\* The key of the normalized lookup for a name
NormalizedKey(name) == Lower(normalize_restaurant_name(name))

\* C7: get_camis never raises; for a name that is a key of the reference
\* table it returns that entry's camis, whatever the normalized lookup would
\* find; otherwise the camis of an entry whose normalized key is the name's;
\* otherwise null.  A result that is not null is a camis of the table.
GetCamisTotalAndOrdered ==
    last.op = "get_camis" =>
        LET t == ReferenceTable
            exact == {i \in 1..Len(t) : t[i].key = last.arg}
            norm == {i \in 1..Len(t) : NormalizedKey(t[i].key) = NormalizedKey(last.arg)}
        IN  /\ Returned(last.out)
            /\ IF exact # {} THEN \A i \in exact : last.out.value = t[i].val.camis
               ELSE IF norm # {} THEN \E i \in norm : last.out.value = t[i].val.camis
               ELSE last.out.value = None
            /\ last.out.value # None => \E i \in 1..Len(t) : last.out.value = t[i].val.camis

\* get_camis has returned for a name that is a key of the table, while the
\* normalized lookup of that name leads to an entry with another camis.
GetCamisTotalAndOrderedWitness ==
    /\ Did("get_camis")
    /\ DictHas(matcher.mapping, last.arg)
    /\ DictHas(matcher.normalized, NormalizedKey(last.arg))
    /\ DictGet(matcher.normalized, NormalizedKey(last.arg)).camis # last.out.value

\* C8, as stated: with a reference file that is missing or cannot be read or
\* parsed, the constructor returns with an empty mapping, and every lookup
\* after it returns null.
ConstructorToleratesBadFile ==
    mappingFile.state # "ok" =>
        /\ last.op = "RestaurantMatcher" =>
            Returned(last.out) /\ matcher.mapping = <<>> /\ matcher.normalized = <<>>
        /\ last.op = "get_camis" => last.out = Return(None)
        /\ last.op = "get_restaurant_info" => last.out = Return([found |-> FALSE])

\* C9, as stated: a result of normalize_restaurant_name that matches none of
\* the NAME_SUFFIXES patterns is left as it is by normalize_restaurant_name.
NormalizeIdempotent ==
    (last.op = "normalize_again" /\ ~MatchesSomeSuffix(last.arg)) =>
        last.out.value = last.arg

\* C10: whenever get_rodent_orders returns, total_rodent_revenue is the sum of
\* cost, and order_count the number, of the orders whose resolved camis has a
\* rodent-keyword row anywhere in the raw inspections, each order once;
\* unique_restaurants is the number of distinct raw names of those orders.
RodentExposureWholeHistory ==
    Did("get_rodent_orders") =>
        LET rodent_camis ==
                {r.camis : r \in {x \in Range(inspections) :
                                     StrContains(x.violation_description, RODENT_KEYWORDS)}}
            hit == SelectSeq(orders,
                             LAMBDA o : get_camis(matcher, o.restaurant_name) \in rodent_camis)
        IN  /\ last.out.value.total_rodent_revenue = SumCost(hit)
            /\ last.out.value.order_count = Len(hit)
            /\ last.out.value.unique_restaurants =
                   Cardinality({o.restaurant_name : o \in Range(hit)})

\* get_rodent_orders has returned revenue for an order whose restaurant has a
\* rodent row in its history and none in its latest record.
RodentExposureWholeHistoryWitness ==
    /\ Did("get_rodent_orders")
    /\ last.out.value.total_rodent_revenue > 0
    /\ merged.computed
    /\ \E r \in Range(merged.rows) :
        /\ r.cost_of_the_order > 0
        /\ \E x \in Range(inspections) :
            x.camis = r.camis /\ StrContains(x.violation_description, RODENT_KEYWORDS)
        /\ ~StrContains(r.violation_description, RODENT_KEYWORDS)

\* The camis has inspection rows, and get_risk_flags finds a flag for it
\* whichever way its grade_date sort comes out
SurelyFlagged(camis) ==
    /\ \E r \in Range(inspections) : r.camis = camis
    /\ \A g \in LatestGradeChoices(inspections, camis) :
        RiskFlags(inspections, camis, g).flags # <<>>

\* The cost of the orders of a (restaurant_name, camis) group
GroupRevenue(name, camis) ==
    SumCost(SelectSeq(merged.rows, LAMBDA r : r.restaurant_name = name /\ r.camis = camis))

\* C11: whenever get_watchlist(top_n) returns for a top_n >= 0, it returns at
\* most top_n entries; every entry has a resolved camis and a non-empty
\* risk_flags list; the entries are in non-increasing order of revenue and
\* ranked 1..k in that order; no flagged resolved (restaurant_name, camis)
\* group that is left out has a higher revenue than an entry, and none is
\* left out of a page that is not full; total_watchlist_revenue is the sum
\* over the returned entries.
WatchlistTopN ==
    (Did("get_watchlist") /\ last.arg >= 0) =>
        LET w == last.out.value.restaurants
            out == {<<r.restaurant_name, r.camis>> :
                        r \in {x \in Range(merged.rows) :
                                  /\ ~IsNa(x.camis)
                                  /\ SurelyFlagged(x.camis)
                                  /\ \A i \in 1..Len(w) :
                                        <<w[i].restaurant_name, w[i].camis>>
                                            # <<x.restaurant_name, x.camis>>}}
        IN  /\ Len(w) <= last.arg
            /\ \A i \in 1..Len(w) :
                /\ ~IsNa(w[i].camis)
                /\ w[i].risk_flags # <<>>
                /\ w[i].rank = i
                /\ w[i].revenue = GroupRevenue(w[i].restaurant_name, w[i].camis)
                /\ i < Len(w) => w[i].revenue >= w[i + 1].revenue
                /\ \A g \in out : GroupRevenue(g[1], g[2]) <= w[i].revenue
            /\ Len(w) < last.arg => out = {}
            /\ last.out.value.total_watchlist_revenue
                = SumSeq([i \in 1..Len(w) |-> w[i].revenue])

\* get_watchlist(1) has returned the flagged restaurant with the higher
\* revenue and left out a flagged one with a lower revenue.
WatchlistTopNWitness ==
    /\ Did("get_watchlist")
    /\ last.arg = 1
    /\ Len(last.out.value.restaurants) = 1
    /\ \E r \in Range(merged.rows) :
        /\ ~IsNa(r.camis)
        /\ SurelyFlagged(r.camis)
        /\ r.camis # last.out.value.restaurants[1].camis
        /\ GroupRevenue(r.restaurant_name, r.camis) < last.out.value.restaurants[1].revenue

\* C12: the inspection fields joined to an order are those of one inspection
\* record of its camis, a record with the greatest inspection_date: no
\* joined row holds field values of different inspection records, also when
\* the latest record has null fields.
LatestIsOneRecord ==
    Did("match_orders_to_inspections") =>
        \A r \in Range(last.out.value.rows) :
            (\E x \in Range(inspections) : x.camis = r.camis) =>
                \E x \in Range(inspections) :
                    /\ x.camis = r.camis
                    /\ \A y \in Range(inspections) :
                        y.camis = r.camis => y.inspection_date <= x.inspection_date
                    /\ x.boro = r.boro
                    /\ x.grade = r.grade
                    /\ x.grade_date = r.grade_date
                    /\ x.inspection_date = r.inspection_date
                    /\ x.action = r.action
                    /\ x.violation_description = r.violation_description
                    /\ x.critical_flag = r.critical_flag

\* The enriched row r is rodent-related: its joined violation_description
\* has a rodent keyword
RodentRelated(r) == StrContains(r.violation_description, RODENT_KEYWORDS)

\* The ids of the orders that are rodent-related and satisfy none of the four
\* predicates of revenue at risk
RodentOnlyIds ==
    {r.order_id : r \in {x \in Range(merged.rows) : RodentRelated(x) /\ RiskPredicates(x) = {}}}

\* The ids of the orders that satisfy one of the five predicates
FivePredicateIds ==
    {r.order_id : r \in {x \in Range(merged.rows) : RodentRelated(x) \/ RiskPredicates(x) # {}}}

\* C13, as stated: whenever get_revenue_at_risk returns, the union total
\* counts every order that satisfies one of the five predicates (closed,
\* grade C, grade pending, critical violation, rodent-related), so an order
\* that is only rodent-related is counted.
RarCountsRodentOnlyOrders ==
    Did("get_revenue_at_risk") =>
        /\ last.out.value.order_count = Cardinality(FivePredicateIds)
        /\ last.out.value.total_revenue_at_risk = SumCost(OrdersWithId(FivePredicateIds))

\* C13, amended: whenever get_revenue_at_risk returns, the orders that are
\* only rodent-related are left out of the union total: the total and the
\* count fall short of those over the five predicates by exactly the cost and
\* the number of the rodent-only orders, and the result has four categories.
RarLeavesOutRodentOnlyOrders ==
    Did("get_revenue_at_risk") =>
        /\ last.out.value.order_count + Cardinality(RodentOnlyIds)
            = Cardinality(FivePredicateIds)
        /\ last.out.value.total_revenue_at_risk + SumCost(OrdersWithId(RodentOnlyIds))
            = SumCost(OrdersWithId(FivePredicateIds))
        /\ DOMAIN last.out.value.breakdown
            = {"closed", "grade_c", "grade_pending", "critical_violation"}

\* get_revenue_at_risk has returned for an order with a cost that is only
\* rodent-related, and one that is at risk.
RarLeavesOutRodentOnlyOrdersWitness ==
    /\ Did("get_revenue_at_risk")
    /\ \E id \in RodentOnlyIds : SumCost(OrdersWithId({id})) > 0
    /\ last.out.value.order_count > 0

\* The cached merged frame
MergedFrame == [cols |-> merged.cols, rows |-> merged.rows]

\* The orders whose restaurant_name resolves to a camis
ResolvedOrders ==
    SelectSeq(orders, LAMBDA o : ~IsNa(get_camis(matcher, o.restaurant_name)))

\* C14: whenever get_summary returns, its fields are those of the individual
\* operations on the same merged frame: revenue_at_risk and risk_order_count
\* are the totals of get_revenue_at_risk, the rodent fields the totals of
\* get_rodent_orders, grade_breakdown and borough_breakdown have exactly the
\* buckets of get_revenue_by_grade and get_borough_breakdown, each with its
\* revenue, top_watchlist is a restaurants list of get_watchlist(10),
\* total_orders is the number of orders, and matched_orders and
\* matched_revenue are the number and the cost of the resolved orders.
SummaryConsistent ==
    Did("get_summary") =>
        LET v == last.out.value
            rar == get_revenue_at_risk(MergedFrame)
            rodent == IF IsEmpty(_find_rodent_violations(inspections))
                      THEN Return(NoRodentOrders)
                      ELSE get_rodent_orders(inspections, MergedFrame)
            grade == get_revenue_by_grade(orders, MergedFrame)
            boro == get_borough_breakdown(matcher, orders, MergedFrame)
        IN  /\ Returned(rar) /\ Returned(rodent) /\ Returned(grade) /\ Returned(boro)
            /\ v.revenue_at_risk = rar.value.total_revenue_at_risk
            /\ v.risk_order_count = rar.value.order_count
            /\ v.rodent_revenue = rodent.value.total_rodent_revenue
            /\ v.rodent_order_count = rodent.value.order_count
            /\ v.rodent_restaurant_count = rodent.value.unique_restaurants
            /\ Len(v.grade_breakdown) = Len(grade.value.grades)
            /\ \A g \in Range(grade.value.grades) :
                /\ DictHas(v.grade_breakdown, g.grade)
                /\ DictGet(v.grade_breakdown, g.grade) = g.revenue
            /\ Len(v.borough_breakdown) = Len(boro.value.boroughs)
            /\ \A b \in Range(boro.value.boroughs) :
                /\ DictHas(v.borough_breakdown, b.borough)
                /\ DictGet(v.borough_breakdown, b.borough) = b.revenue
            /\ \E w \in get_watchlist(inspections, MergedFrame, 10) :
                Returned(w) /\ v.top_watchlist = w.value.restaurants
            /\ v.total_orders = Len(orders)
            /\ v.total_revenue = SumCost(orders)
            /\ v.matched_orders = Len(ResolvedOrders)
            /\ v.matched_revenue = SumCost(ResolvedOrders)

\* get_summary has returned for orders of which one resolves and one does
\* not, with a graded bucket, a borough, orders at risk and a restaurant on
\* the watchlist.
SummaryConsistentWitness ==
    /\ Did("get_summary")
    /\ 0 < Len(ResolvedOrders) /\ Len(ResolvedOrders) < Len(orders)
    /\ last.out.value.matched_revenue > 0
    /\ last.out.value.matched_revenue < last.out.value.total_revenue
    /\ last.out.value.grade_breakdown # <<>>
    /\ last.out.value.borough_breakdown # <<>>
    /\ last.out.value.top_watchlist # <<>>
    /\ last.out.value.risk_order_count > 0

\* The rows of the orders file whose cost cell is a decimal numeral
NumeralRows ==
    SelectSeq(ordersFile.rows,
              LAMBDA r : \E c \in NumeralCosts : c[1] = r.cost_of_the_order)

\* The number a numeral cost cell of the model denotes
NumberOf(cell) == (CHOOSE c \in NumeralCosts : c[1] = cell)[2]

\* C15: load_orders of a file that exists and has all required columns
\* returns, and the frame holds exactly the rows of the file whose cost is a
\* numeral, in the order of the file, each with the number its cell denotes:
\* a row with a malformed cost is not kept (with cost 0 or otherwise), does
\* not fail the load, and removes no other row.
LoaderDropPolicy ==
    (last.op = "load_orders" /\ ordersFile.exists /\ REQUIRED_COLS \subseteq ordersFile.cols) =>
        /\ Returned(last.out)
        /\ Len(last.out.value.rows) = Len(NumeralRows)
        /\ \A i \in 1..Len(NumeralRows) :
            /\ last.out.value.rows[i].order_id = NumeralRows[i].order_id
            /\ last.out.value.rows[i].cost_of_the_order
                = NumberOf(NumeralRows[i].cost_of_the_order)

\* load_orders has returned for a file with a malformed cost in its first
\* row and a cost of 0 in its second.
LoaderDropPolicyWitness ==
    /\ Did("load_orders")
    /\ REQUIRED_COLS \subseteq ordersFile.cols
    /\ Len(ordersFile.rows) = 2
    /\ ordersFile.rows[1].cost_of_the_order \in MalformedCosts \ {NaN}
    /\ ordersFile.rows[2].cost_of_the_order = <<"0">>
    /\ Len(last.out.value.rows) = 1

\* The frame get_borough_breakdown groups: the merged frame, or the frame
\* enriched with the reference boroughs when no row has a borough
BoroughFrame ==
    IF "boro" \notin merged.cols \/ \A r \in Range(merged.rows) : IsNa(r.boro)
    THEN enrich_orders_with_boro(matcher, MergedFrame).value
    ELSE MergedFrame

\* get_borough_breakdown has returned and every order has a borough
BreakdownOfBucketedOrders ==
    /\ Did("get_borough_breakdown")
    /\ \A r \in Range(BoroughFrame.rows) : ~IsNa(r.boro)

\* The per-borough revenues, order counts and percentages of the result add
\* up to the total revenue, the number of orders and 100 within 0.1
BoroughSumsAddUp ==
    LET b == last.out.value.boroughs
    IN  /\ SumSeq([i \in 1..Len(b) |-> b[i].revenue]) = last.out.value.total_revenue
        /\ last.out.value.total_revenue = SumCost(orders)
        /\ SumSeq([i \in 1..Len(b) |-> b[i].order_count]) = Len(orders)
        /\ \A i \in 1..Len(b) : b[i].percentage.kind = "num"
        /\ SumSeq([i \in 1..Len(b) |-> b[i].percentage.v]) \in (10000 - 10)..(10000 + 10)

\* C16, as stated: whenever get_borough_breakdown returns and every order has
\* a non-null borough, the per-borough revenues sum to total_revenue, the
\* order counts to the number of orders, and the percentages to 100 within
\* 0.1.
BoroughSumsTo100 ==
    BreakdownOfBucketedOrders => BoroughSumsAddUp

\* C16, amended: the same, when the total revenue is positive.
BoroughSumsTo100OfPositiveTotal ==
    (BreakdownOfBucketedOrders /\ SumCost(orders) > 0) => BoroughSumsAddUp

\* get_borough_breakdown has returned for three orders of equal cost in three
\* boroughs: the rounded percentages sum to 99.99.
BoroughSumsTo100OfPositiveTotalWitness ==
    /\ BreakdownOfBucketedOrders
    /\ SumCost(orders) > 0
    /\ Len(last.out.value.boroughs) = 3
    /\ SumSeq([i \in 1..3 |-> last.out.value.boroughs[i].percentage.v]) = 9999

\* C17, as stated: get_camis returns a camis only for a name that is a key of
\* the reference table character for character, or whose normalized form is
\* the normalized form of a key character for character; a name that differs
\* from every key in letter case after normalization does not resolve.
ResolvesOnlyExactOrNormalized ==
    (Did("get_camis") /\ ~IsNa(last.out.value)) =>
        \E i \in 1..Len(ReferenceTable) :
            \/ ReferenceTable[i].key = last.arg
            \/ normalize_restaurant_name(ReferenceTable[i].key)
                = normalize_restaurant_name(last.arg)

\* C17, amended: get_camis returns a camis only for a name that is a key of
\* the reference table character for character, or whose normalized form
\* equals the normalized form of a key up to letter case; nothing looser.
ResolvesOnlyExactOrNormalizedFolded ==
    (Did("get_camis") /\ ~IsNa(last.out.value)) =>
        \E i \in 1..Len(ReferenceTable) :
            \/ ReferenceTable[i].key = last.arg
            \/ NormalizedKey(ReferenceTable[i].key) = NormalizedKey(last.arg)

\* get_camis has returned a camis for a name that is no key and whose
\* normalized form differs from that of every key, but only in letter case.
ResolvesOnlyExactOrNormalizedFoldedWitness ==
    /\ Did("get_camis")
    /\ ~IsNa(last.out.value)
    /\ \A i \in 1..Len(ReferenceTable) :
        /\ ReferenceTable[i].key # last.arg
        /\ normalize_restaurant_name(ReferenceTable[i].key)
            # normalize_restaurant_name(last.arg)

\* The closure marker, and the tags of rules that come after the closure
\* rule in NAME_SUFFIXES and end where the name ends
ClosureMarker == <<" ","-"," ","C","L","O","S","E","D">>
LaterTags ==
    { <<" ","(","a","r","c","h","i","v","e","d",")">>,
      <<" ","-","u","e","s">>,
      <<" ","H","u","d","s","o","n">> }

\* C18: normalize_restaurant_name always returns; for None, a value that is
\* not a str, or the empty string it returns the empty string; and it makes
\* one pass over the rules: of a name followed by a closure marker and then
\* a tag of a later rule only the tag is removed (the closure rule has had
\* its turn), while with the tag first and the marker last both are removed.
NormalizeSinglePass ==
    last.op = "normalize_restaurant_name" =>
        /\ Returned(last.out)
        /\ (IsNa(last.arg) \/ last.arg = <<>>) => last.out.value = <<>>
        /\ \A t \in LaterTags :
            /\ last.arg = T_Joe \o ClosureMarker \o t
                => last.out.value = T_Joe \o ClosureMarker
            /\ last.arg = ClosureMarker \o t
                => last.out.value = Strip(ClosureMarker)
            /\ last.arg = T_Joe \o t \o ClosureMarker
                => last.out.value = T_Joe

\* normalize_restaurant_name has returned a name that still ends in the
\* closure marker, for a name with a tag after the marker.
NormalizeSinglePassWitness ==
    /\ Did("normalize_restaurant_name")
    /\ \E t \in LaterTags : last.arg = T_Joe \o ClosureMarker \o t
    /\ Matches(NAME_SUFFIXES[1], last.out.value)

\* normalize_restaurant_name has returned for an argument that is not a str.
NormalizeOfNonString ==
    /\ Did("normalize_restaurant_name")
    /\ IsNa(last.arg)

\* The positions of the graded rows of a camis in the inspections
GradedRowsOf(camis) ==
    {i \in 1..Len(inspections) :
        inspections[i].camis = camis /\ inspections[i].grade \in GRADED}

\* The graded row of a camis with the greatest grade_date, the first such
\* row of the collection; rows without a grade_date rank last
LatestGradedRow(camis) ==
    LET dated == {i \in GradedRowsOf(camis) : ~IsNaT(inspections[i].grade_date)}
        top == SetMax({inspections[i].grade_date : i \in dated})
    IN  IF dated = {} THEN inspections[SetMin(GradedRowsOf(camis))]
        ELSE inspections[SetMin({i \in dated : inspections[i].grade_date = top})]

\* C19, as stated: a latest-graded reduction returns one row for each camis
\* with a graded row and none for any other; the row is the graded row of the
\* camis with the greatest grade_date, rows without a grade_date last and
\* ties going to the row that comes first in the collection; with no graded
\* row the result is empty.
LatestGradedIsFirstMaxRow ==
    last.op \in {"_compute_latest_grades", "get_latest_grades"} =>
        LET out == last.out.value.rows
            graded == {r.camis : r \in {x \in Range(inspections) : x.grade \in GRADED}}
        IN  /\ Returned(last.out)
            /\ {r.camis : r \in Range(out)} = graded
            /\ Len(out) = Cardinality(graded)
            /\ \A i \in 1..Len(out) :
                \A f \in DOMAIN out[i] : out[i][f] = LatestGradedRow(out[i].camis)[f]

\* The raw inspection rows of a camis
RawRowsOf(camis) == SelectSeq(inspections, LAMBDA r : r.camis = camis)

\* The grades of the rows of a camis with the greatest grade_date; when no
\* row has a grade_date, the grade of its first row
TopGrades(camis) ==
    LET rows == RawRowsOf(camis)
        dates == {r.grade_date : r \in Range(rows)} \ {NaT}
    IN  IF dates = {} THEN {Head(rows).grade}
        ELSE {r.grade : r \in {x \in Range(rows) : x.grade_date = SetMax(dates)}}

\* C20: whenever get_watchlist returns, every entry's flags are those of the
\* raw inspection rows of its camis: critical_violations is the number of
\* rows whose critical_flag is CRITICAL (in any letter case),
\* rodent_violations the number of rows whose description has a rodent
\* keyword, and risk_flags lists, in this order, the critical count if
\* positive, the rodent count if positive, "closure history" if a row has a
\* closure action, and "grade X" if the grade X of a row with the greatest
\* grade_date is C, P, N or Z; nothing else.
WatchlistFlagsFromRawRows ==
    Did("get_watchlist") =>
        \A e \in Range(last.out.value.restaurants) :
            LET rows == RawRowsOf(e.camis)
                critical == Cardinality({i \in 1..Len(rows) :
                                ~IsNa(rows[i].critical_flag)
                                /\ Upper(rows[i].critical_flag) = CRITICAL})
                rodent == Cardinality({i \in 1..Len(rows) :
                                \E kw \in RODENT_KEYWORDS :
                                    Contains(Upper(rows[i].violation_description), kw)})
                closure == \E i \in 1..Len(rows) : \E kw \in CLOSURE_KEYWORDS :
                                Contains(Upper(rows[i].action), kw)
                Expected(g) ==
                    (IF critical > 0
                     THEN <<[flag |-> "critical violations", n |-> critical]>> ELSE <<>>)
                    \o (IF rodent > 0
                        THEN <<[flag |-> "rodent violations", n |-> rodent]>> ELSE <<>>)
                    \o (IF closure THEN <<[flag |-> "closure history"]>> ELSE <<>>)
                    \o (IF g \in {<<"C">>, <<"P">>, <<"N">>, <<"Z">>}
                        THEN <<[flag |-> "grade", grade |-> g]>> ELSE <<>>)
            IN  /\ rows # <<>>
                /\ e.critical_violations = critical
                /\ e.rodent_violations = rodent
                /\ \E g \in TopGrades(e.camis) : e.risk_flags = Expected(g)

\* get_watchlist has returned an entry with three flags, a rodent count
\* among them, whose rodent row is not the record joined to its orders.
WatchlistFlagsFromRawRowsWitness ==
    /\ Did("get_watchlist")
    /\ \E e \in Range(last.out.value.restaurants) :
        /\ Len(e.risk_flags) = 3
        /\ e.rodent_violations > 0
        /\ Len(RawRowsOf(e.camis)) >= 2
        /\ \E r \in Range(merged.rows) :
            r.camis = e.camis /\ ~StrContains(r.violation_description, RODENT_KEYWORDS)

----------------------------------------------------------------------------
(* C21: the borough fallback of get_borough_breakdown. *)

\* The borough the reference file gives for a restaurant name, null when the
\* name is unknown or its entry has no borough
ReferenceBoro(name) ==
    LET r == get_restaurant_info(matcher, name)
    IN  IF r.found /\ ~IsNa(r.info.boro) THEN r.info.boro ELSE NaN

\* The borough of the enriched row r under a per-order fallback: the borough
\* of the inspection join, or the reference borough when the join gave none
FallbackBoro(r) ==
    IF "boro" \in merged.cols /\ ~IsNa(r.boro) THEN r.boro
    ELSE ReferenceBoro(r.restaurant_name)

\* The number of orders the returned breakdown counts under borough b
CountedUnder(b) ==
    LET bs == last.out.value.boroughs
        hit == {i \in 1..Len(bs) : bs[i].borough = b}
    IN  IF hit = {} THEN 0 ELSE bs[CHOOSE i \in hit : TRUE].order_count

\* C21: whenever get_borough_breakdown returns, every order without a borough
\* from the inspection join is counted under the reference borough of its
\* restaurant name when the reference file has one, also when other orders
\* did obtain a borough from the join: each borough counts exactly the orders
\* whose joined-or-reference borough it is.
BoroughFallbackPerOrder ==
    Did("get_borough_breakdown") =>
        \A b \in {FallbackBoro(r) : r \in Range(merged.rows)} \ {NaN} :
            CountedUnder(b) =
                Cardinality({i \in 1..Len(merged.rows) : FallbackBoro(merged.rows[i]) = b})

----------------------------------------------------------------------------
(* SpecCategory: get_borough_breakdown over inspection rows whose          *)
(* descriptions match none, one or several of the violation categories.    *)
(* The order of the unknown restaurant has a null description after the    *)
(* join; a cleaned inspection row without a description has "".            *)

MaxCatOrders == 2

D_FoodTemperature == <<"F","O","O","D"," ","T","E","M","P","E","R","A","T","U","R","E">>
D_ColdFoodNotClean == <<"C","O","L","D"," ","F","O","O","D"," ","N","O","T"," ","C","L","E","A","N">>
D_PestNotCleaned == <<"S","A","N","I","T","A","R","Y"," ","P","E","S","T"," ","C","O","N","T","R","O","L">>
D_HotFoodMice == <<"H","O","T"," ","F","O","O","D"," ","M","I","C","E">>
D_HotFood == <<"H","O","T"," ","F","O","O","D">>
D_Temperature == <<"T","E","M","P","E","R","A","T","U","R","E"," ","L","O","G">>
D_Roach == <<"R","O","A","C","H">>
D_None == <<>>
CatDescs == {D_FoodTemperature, D_ColdFoodNotClean, D_PestNotCleaned, D_HotFoodMice,
             D_HotFood, D_Temperature, D_Roach, D_None}
CatCosts == {1000, 2000}
CatInspRows ==
    {InspRow(Camis07, 1, <<"A">>, T_Cited, d, T_NotCritical, T_Manhattan, 1) : d \in CatDescs}
    \cup {InspRow(Camis41, 1, <<"A">>, T_Cited, d, T_NotCritical, T_Brooklyn, 1) :
            d \in {D_FoodTemperature, D_HotFood}}

InitCategory ==
    /\ mappingFile = StdFile
    /\ orders \in {OrdersOf(rows) :
                     rows \in SeqsUpTo({T_Joe, T_Moe, T_Zed} \X CatCosts, MaxCatOrders)}
    /\ inspections \in SeqsUpTo(CatInspRows, MaxInsp)
    /\ matcher = NewMatcher
    /\ merged = NotComputed
    /\ query = <<>>
    /\ ordersFile = NoOrdersFile
    /\ loader = NotLoaded
    /\ service = NoService
    /\ api = NoClient
    /\ last = [op |-> "start", arg |-> <<>>, out |-> Return(<<>>)]

NextCategory ==
    \/ Construct
    \/ GetBoroughBreakdown

SpecCategory == InitCategory /\ [][NextCategory]_vars

----------------------------------------------------------------------------
(* C22: the violation-category breakdown. *)

\* The categories in the order the loop tries them
CATEGORY_ORDER == <<"rodent", "temperature", "sanitation", "pest">>

\* The upper-cased description desc has a keyword of category c
MatchesCategory(c, desc) ==
    LET Has(w) == Contains(desc, w)
    IN  \/ c = "rodent" /\ \E kw \in RODENT_KEYWORDS : Has(kw)
        \/ c = "temperature" /\ Has(<<"F","O","O","D">>)
               /\ (Has(<<"T","E","M","P","E","R","A","T","U","R","E">>)
                   \/ Has(<<"C","O","L","D">>) \/ Has(<<"H","O","T">>))
        \/ c = "sanitation" /\ (Has(<<"S","A","N","I","T">>) \/ Has(<<"C","L","E","A","N">>))
        \/ c = "pest" /\ (Has(<<"P","E","S","T">>) \/ Has(<<"I","N","S","E","C","T">>)
                          \/ Has(<<"F","L","Y">>) \/ Has(<<"R","O","A","C","H">>))

\* The positions in CATEGORY_ORDER of the categories the enriched row r
\* matches; none for a null description
MatchedPositions(r) ==
    IF IsNa(r.violation_description) THEN {}
    ELSE {i \in 1..4 : MatchesCategory(CATEGORY_ORDER[i], Upper(r.violation_description))}

\* The enriched rows the claim assigns to category number i
AssignedRows(i) ==
    SelectSeq(merged.rows, LAMBDA r : MatchedPositions(r) # {} /\ SetMin(MatchedPositions(r)) = i)

\* The revenue the returned breakdown reports for category c, 0 when absent
CategoryRevenue(c) ==
    LET d == last.out.value.violation_categories
    IN  IF c \in DOMAIN d THEN d[c] ELSE 0

\* C22: whenever get_borough_breakdown returns over a frame with a
\* description column, each category's revenue is the cost of the enriched
\* orders whose first matching category (rodent, temperature, sanitation,
\* pest, in that order) it is, an order with a null description counts in no
\* category, and the category revenues sum to at most the total revenue.
CategoryFirstMatch ==
    (Did("get_borough_breakdown") /\ "violation_description" \in merged.cols) =>
        /\ DOMAIN last.out.value.violation_categories \subseteq Range(CATEGORY_ORDER)
        /\ \A i \in 1..4 : CategoryRevenue(CATEGORY_ORDER[i]) = SumCost(AssignedRows(i))
        /\ SumSeq([i \in 1..4 |-> CategoryRevenue(CATEGORY_ORDER[i])])
             = SumCost(SelectSeq(merged.rows, LAMBDA r : MatchedPositions(r) # {}))
        /\ SumSeq([i \in 1..4 |-> CategoryRevenue(CATEGORY_ORDER[i])]) <= SumCost(orders)

\* get_borough_breakdown has returned for an order whose description matches
\* two categories (temperature and sanitation) and an order with a null
\* description: the first is counted once, under temperature, the second
\* nowhere.
CategoryFirstMatchWitness ==
    /\ Did("get_borough_breakdown")
    /\ "violation_description" \in merged.cols
    /\ \E r \in Range(merged.rows) : MatchedPositions(r) = {2, 3}
    /\ \E r \in Range(merged.rows) : IsNa(r.violation_description)
    /\ CategoryRevenue("temperature") > 0
    /\ CategoryRevenue("sanitation") = 0
    /\ SumSeq([i \in 1..4 |-> CategoryRevenue(CATEGORY_ORDER[i])]) < SumCost(orders)

----------------------------------------------------------------------------
(* C30: substring matching of the rodent keywords in the category loop. *)

T_TEMPERATURE == <<"T","E","M","P","E","R","A","T","U","R","E">>

\* The rows of the merged frame whose description satisfies the temperature
\* rule as the claim words it: FOOD with COLD or HOT, and no rodent keyword
\* as a substring
ColdOrHotFoodRows ==
    SelectSeq(merged.rows, LAMBDA r :
        /\ ~IsNa(r.violation_description)
        /\ Contains(Upper(r.violation_description), <<"F","O","O","D">>)
        /\ (Contains(Upper(r.violation_description), <<"C","O","L","D">>)
            \/ Contains(Upper(r.violation_description), <<"H","O","T">>))
        /\ \A kw \in RODENT_KEYWORDS : ~Contains(Upper(r.violation_description), kw))

\* The rows of the merged frame whose description contains TEMPERATURE
TemperatureWordRows ==
    SelectSeq(merged.rows, LAMBDA r :
        ~IsNa(r.violation_description) /\ Contains(Upper(r.violation_description), T_TEMPERATURE))

\* C30: whenever get_borough_breakdown returns over a frame with a
\* description column, the cost of every order whose description contains
\* TEMPERATURE is part of the rodent revenue, and the temperature revenue is
\* exactly the cost of the orders whose description has FOOD with COLD or
\* HOT and no rodent keyword as a substring.
TemperatureWordIsRodent ==
    (Did("get_borough_breakdown") /\ "violation_description" \in merged.cols) =>
        /\ CategoryRevenue("rodent") >= SumCost(TemperatureWordRows)
        /\ \A r \in Range(TemperatureWordRows) : 1 \in MatchedPositions(r)
        /\ CategoryRevenue("temperature") = SumCost(ColdOrHotFoodRows)

\* get_borough_breakdown has returned for orders of a restaurant cited for
\* "FOOD TEMPERATURE" only: their whole cost is rodent revenue and there is no
\* temperature category.
TemperatureWordIsRodentWitness ==
    /\ Did("get_borough_breakdown")
    /\ "violation_description" \in merged.cols
    /\ \E r \in Range(merged.rows) : r.violation_description = D_FoodTemperature
    /\ \A r \in Range(merged.rows) :
          IsNa(r.violation_description) \/ r.violation_description = D_FoodTemperature
    /\ CategoryRevenue("rodent") > 0
    /\ "temperature" \notin DOMAIN last.out.value.violation_categories

----------------------------------------------------------------------------
(* SpecService: concurrent calls of get_analytics_service (api/index.py) on *)
(* one event loop.  A call runs without interruption from one await that    *)
(* suspends to the next: the fetch of the inspections suspends in its page  *)
(* requests, and nyc_api.close() suspends once the fetch has created the    *)
(* HTTP client.  With the bundled parquet cache present nothing suspends.   *)

MaxCallers == 3

Callers == 1..MaxCallers

\* The body of get_analytics_service after the inspections are loaded and the
\* client is closed: the AnalyticsService is constructed, stored in the
\* module-level _analytics_service and returned to caller c
ConstructService(s, c) ==
    [s EXCEPT !.constructed = @ + 1,
              !._analytics_service = s.constructed + 1,
              !.pc[c] = "done",
              !.got[c] = s.constructed + 1]

\* get_analytics_service up to its first suspension, for caller c: the cached
\* instance when there is one; else the orders are loaded and either the
\* bundled cache is read and the service constructed, or the API fetch starts
EnterService(s, c) ==
    IF s._analytics_service # 0
    THEN [s EXCEPT !.pc[c] = "done", !.got[c] = s._analytics_service]
    ELSE LET loaded == [s EXCEPT !.orders_loads = @ + 1]
         IN  IF s.cache_exists
             THEN ConstructService([loaded EXCEPT !.inspections_loads = @ + 1], c)
             ELSE [loaded EXCEPT !.pc[c] = "fetching"]

\* A request arrives: caller c runs get_analytics_service to its first await
GetAnalyticsService ==
    /\ service.used
    /\ \E c \in Callers :
        /\ service.pc[c] = "idle"
        /\ service' = EnterService(service, c)
    /\ UNCHANGED <<mappingFile, orders, inspections, matcher, merged, query, ordersFile,
                   loader, api, last>>

\* await nyc_api.fetch_all_inspections(use_cache=False) returns to caller c,
\* which goes on to await nyc_api.close()
FetchReturns ==
    /\ service.used
    /\ \E c \in Callers :
        /\ service.pc[c] = "fetching"
        /\ service' = [service EXCEPT !.inspections_loads = @ + 1, !.pc[c] = "closing"]
    /\ UNCHANGED <<mappingFile, orders, inspections, matcher, merged, query, ordersFile,
                   loader, api, last>>

\* The fetch raises (an HTTP or request error): the call of c fails
FetchRaises ==
    /\ service.used
    /\ \E c \in Callers :
        /\ service.pc[c] = "fetching"
        /\ service' = [service EXCEPT !.pc[c] = "failed"]
    /\ UNCHANGED <<mappingFile, orders, inspections, matcher, merged, query, ordersFile,
                   loader, api, last>>

\* await nyc_api.close() returns to caller c, which constructs the service
CloseReturns ==
    /\ service.used
    /\ \E c \in Callers :
        /\ service.pc[c] = "closing"
        /\ service' = ConstructService(service, c)
    /\ UNCHANGED <<mappingFile, orders, inspections, matcher, merged, query, ordersFile,
                   loader, api, last>>

InitService ==
    /\ mappingFile = StdFile
    /\ orders = <<>>
    /\ inspections = <<>>
    /\ matcher = NewMatcher
    /\ merged = NotComputed
    /\ query = <<>>
    /\ ordersFile = NoOrdersFile
    /\ loader = NotLoaded
    /\ api = NoClient
    /\ \E cache_exists \in BOOLEAN :
        service = [used |-> TRUE, cache_exists |-> cache_exists, _analytics_service |-> 0,
                   orders_loads |-> 0, inspections_loads |-> 0, constructed |-> 0,
                   pc |-> [c \in Callers |-> "idle"], got |-> [c \in Callers |-> 0]]
    /\ last = [op |-> "start", arg |-> <<>>, out |-> Return(<<>>)]

NextService ==
    \/ GetAnalyticsService
    \/ FetchReturns
    \/ FetchRaises
    \/ CloseReturns

SpecService == InitService /\ [][NextService]_vars

\* C23: under every interleaving of concurrent get_analytics_service calls
\* the orders and the inspections are loaded at most once, at most one
\* AnalyticsService is constructed, and all callers that got an instance got
\* the same one.
ServiceSingleFlight ==
    service.used =>
        /\ service.orders_loads <= 1
        /\ service.inspections_loads <= 1
        /\ service.constructed <= 1
        /\ \A c, d \in Callers :
              (service.pc[c] = "done" /\ service.pc[d] = "done") => service.got[c] = service.got[d]

----------------------------------------------------------------------------
(* SpecFetch: one call of NYCInspectionAPI.fetch_all_inspections.  The call *)
(* suspends in every page request; the server honours $limit and $offset,   *)
(* so the page requested at an offset holds the records offset+1, ...,      *)
(* offset+k for some k <= BATCH_SIZE (the data set may grow or shrink       *)
(* between two requests), or the request raises.  Records are their         *)
(* position in the server's order; _clean_inspection_data keeps every row.  *)
(* The cache is the parquet file of the backend client or the blob of the   *)
(* api client: not configured (no cache_path, no blob credentials),         *)
(* missing, stale, unreadable or fresh.  BATCH_SIZE and MAX_RECORDS are the *)
(* source's 50000 and 500000 divided by 25000.                              *)

BATCH_SIZE == 2
MAX_RECORDS == 20

\* What a cache written before the call holds
OldCache == <<0>>

\* Mutant of load_from_cache: the age of the cache is not checked.
LoadFromCacheAnyAge(a) ==
    IF ~a.configured \/ a.cache = "missing" THEN [found |-> FALSE]
    ELSE IF a.cache = "unreadable" THEN [found |-> FALSE]
    ELSE [found |-> TRUE, df |-> a.cached]

\* load_from_cache: the cached frame, or None ([found |-> FALSE]) when the
\* cache is not configured, missing, older than the maximum age, or fails to
\* load (the exception is caught and logged)
load_from_cache(a) ==
    IF ~a.configured \/ a.cache = "missing" THEN [found |-> FALSE]
    ELSE IF a.cache = "stale" THEN [found |-> FALSE]
    ELSE IF a.cache = "unreadable" THEN [found |-> FALSE]
    ELSE [found |-> TRUE, df |-> a.cached]

\* save_to_cache(df): nothing without a configured cache; a failed write is
\* caught and logged
save_to_cache(a, df) ==
    IF ~a.configured THEN a
    ELSE IF a.writable
         THEN [a EXCEPT !.cache = "fresh", !.cached = df, !.writes = @ + 1]
         ELSE [a EXCEPT !.save_failed = TRUE]

\* Mutant of LoopContinues: the loop also runs at offset = MAX_RECORDS.
LoopContinuesOneMore(offset) == offset <= MAX_RECORDS

\* The guard of the pagination loop
LoopContinues(offset) == offset < MAX_RECORDS

\* fetch_all_inspections after the loop: an empty frame when nothing was
\* fetched, else the cleaned frame, saved to the cache and returned
AfterLoop(a) ==
    IF a.all_records = <<>>
    THEN [a EXCEPT !.pc = "done", !.out = Return(<<>>)]
    ELSE [save_to_cache(a, a.all_records) EXCEPT !.pc = "done", !.out = Return(a.all_records)]

\* The head of the loop: the next page is requested at a.offset, or the loop
\* ends
LoopHead(a) ==
    IF LoopContinues(a.offset)
    THEN [a EXCEPT !.pc = "awaiting", !.requests = Append(@, a.offset)]
    ELSE AfterLoop(a)

\* The body of the loop once the requested page, batch, has arrived
LoopBody(a, batch) ==
    IF batch = <<>> THEN AfterLoop(a)
    ELSE LET b == [a EXCEPT !.all_records = @ \o batch]
         IN  IF Len(batch) < BATCH_SIZE THEN AfterLoop(b)
             ELSE LoopHead([b EXCEPT !.offset = @ + BATCH_SIZE])

\* fetch_all_inspections(use_cache) up to its first page request
fetch_all_inspections(a, use_cache) ==
    LET cached_df == IF use_cache THEN load_from_cache(a) ELSE [found |-> FALSE]
        called == [a EXCEPT !.use_cache = use_cache]
    IN  IF cached_df.found
        THEN [called EXCEPT !.pc = "done", !.hit = TRUE, !.out = Return(cached_df.df)]
        ELSE LoopHead([called EXCEPT !.offset = 0, !.all_records = <<>>])

\* The page the server returns for offset with k records
Page(offset, k) == [i \in 1..k |-> offset + i]

FetchAllInspections ==
    /\ api.used
    /\ api.pc = "idle"
    /\ \E use_cache \in BOOLEAN : api' = fetch_all_inspections(api, use_cache)
    /\ UNCHANGED <<mappingFile, orders, inspections, matcher, merged, query, ordersFile,
                   loader, service, last>>

\* fetch_inspections returns the requested page
PageReturns ==
    /\ api.used
    /\ api.pc = "awaiting"
    /\ \E k \in 0..BATCH_SIZE : api' = LoopBody(api, Page(api.offset, k))
    /\ UNCHANGED <<mappingFile, orders, inspections, matcher, merged, query, ordersFile,
                   loader, service, last>>

\* fetch_inspections raises (HTTP status or request error): the call raises
PageRaises ==
    /\ api.used
    /\ api.pc = "awaiting"
    /\ api' = [api EXCEPT !.pc = "done", !.out = Raise("HTTPError")]
    /\ UNCHANGED <<mappingFile, orders, inspections, matcher, merged, query, ordersFile,
                   loader, service, last>>

InitFetch ==
    /\ mappingFile = StdFile
    /\ orders = <<>>
    /\ inspections = <<>>
    /\ matcher = NewMatcher
    /\ merged = NotComputed
    /\ query = <<>>
    /\ ordersFile = NoOrdersFile
    /\ loader = NotLoaded
    /\ service = NoService
    /\ \E configured, writable \in BOOLEAN :
       \E cache \in {"missing", "stale", "unreadable", "fresh"} :
        api = [used |-> TRUE, configured |-> configured, writable |-> writable,
               cache |-> cache, cached |-> IF cache = "missing" THEN <<>> ELSE OldCache,
               cache0 |-> cache,
               pc |-> "idle", use_cache |-> FALSE, hit |-> FALSE, offset |-> 0,
               all_records |-> <<>>, requests |-> <<>>, writes |-> 0,
               save_failed |-> FALSE, out |-> Return(<<>>)]
    /\ last = [op |-> "start", arg |-> <<>>, out |-> Return(<<>>)]

NextFetch ==
    \/ FetchAllInspections
    \/ PageReturns
    \/ PageRaises

\* Every page request that was issued returns or raises
SpecFetch == InitFetch /\ [][NextFetch]_vars /\ WF_vars(PageReturns \/ PageRaises)

----------------------------------------------------------------------------
(* C24: the pagination of fetch_all_inspections. *)

\* The requests made so far are at offsets 0, BATCH_SIZE, 2*BATCH_SIZE, ...,
\* all below MAX_RECORDS; every page before the last requested one was full;
\* the records fetched so far are the records of the pages, once each, in
\* page order; a call that returned fetched records returns exactly these,
\* and its last page was empty or short or the last one below MAX_RECORDS
PaginationBounded ==
    api.used =>
        /\ api.requests = [i \in 1..Len(api.requests) |-> (i - 1) * BATCH_SIZE]
        /\ \A i \in 1..Len(api.requests) : api.requests[i] < MAX_RECORDS
        /\ Len(api.requests) <= MAX_RECORDS \div BATCH_SIZE
        /\ api.all_records = [i \in 1..Len(api.all_records) |-> i]
        /\ Len(api.all_records) <= MAX_RECORDS
        /\ api.pc = "awaiting" =>
              Len(api.all_records) = BATCH_SIZE * (Len(api.requests) - 1)
        /\ (api.pc = "done" /\ ~api.hit) =>
              /\ Len(api.requests) >= 1
              /\ Len(api.all_records) >= BATCH_SIZE * (Len(api.requests) - 1)
              /\ Returned(api.out) =>
                    /\ api.out.value = api.all_records
                    /\ \/ Len(api.all_records) < BATCH_SIZE * Len(api.requests)
                       \/ Len(api.requests) = MAX_RECORDS \div BATCH_SIZE

\* C24: fetch_all_inspections requests the pages at offsets 0, BATCH_SIZE,
\* 2*BATCH_SIZE, ... in increasing order, stops at the first empty or short
\* page, never requests at an offset >= MAX_RECORDS, makes at most
\* MAX_RECORDS / BATCH_SIZE requests and returns at most MAX_RECORDS records,
\* each fetched record once in page order; and when every page request
\* returns, the call terminates.
FetchTerminatesBounded ==
    /\ []PaginationBounded
    /\ (api.used /\ api.pc = "awaiting") ~> (api.pc = "done")

\* A call that fetched MAX_RECORDS / BATCH_SIZE full pages and returned
\* MAX_RECORDS records
FetchTerminatesBoundedWitness ==
    /\ api.used
    /\ api.pc = "done"
    /\ Returned(api.out)
    /\ Len(api.requests) = MAX_RECORDS \div BATCH_SIZE
    /\ Len(api.out.value) = MAX_RECORDS

----------------------------------------------------------------------------
(* C25: the cache protocol of fetch_all_inspections. *)

\* The cache as the call found it can be served: it is configured, present,
\* no older than the maximum age and loads without error
CacheServable == api.configured /\ api.cache0 = "fresh"

----------------------------------------------------------------------------
(* C26: the risk metrics stay within the matched population. *)

\* The rows of the merged frame that get_revenue_at_risk or get_rodent_orders
\* counts: the rows of the four risk frames and the rows whose camis has a
\* rodent violation in the raw inspections
CountedAsRisk ==
    LET cat == RiskCategories(MergedFrame)
        rodent_camis == {r.camis : r \in Range(_find_rodent_violations(inspections))}
    IN  Range(cat.closed) \cup Range(cat.grade_c) \cup Range(cat.grade_pending)
        \cup Range(cat.critical_violation)
        \cup {r \in Range(merged.rows) : r.camis \in rodent_camis}

\* C26: whenever get_summary returns, every order counted in a category of
\* revenue at risk, in their union or in the rodent exposure has a resolved
\* camis, and revenue_at_risk <= matched_revenue <= total_revenue,
\* rodent_revenue <= matched_revenue and risk_order_count <= matched_orders
\* <= total_orders.
RiskWithinMatched ==
    Did("get_summary") =>
        LET v == last.out.value
        IN  /\ \A r \in CountedAsRisk : ~IsNa(r.camis)
            /\ v.revenue_at_risk <= v.matched_revenue
            /\ v.matched_revenue <= v.total_revenue
            /\ v.rodent_revenue <= v.matched_revenue
            /\ v.rodent_order_count <= v.matched_orders
            /\ v.risk_order_count <= v.matched_orders
            /\ v.matched_orders <= v.total_orders

\* get_summary has returned for an order at risk with rodent exposure and an
\* order of an unknown restaurant: the risk metrics are positive and below
\* the totals.
RiskWithinMatchedWitness ==
    /\ Did("get_summary")
    /\ last.out.value.revenue_at_risk > 0
    /\ last.out.value.rodent_revenue > 0
    /\ last.out.value.risk_order_count = last.out.value.matched_orders
    /\ last.out.value.matched_revenue < last.out.value.total_revenue
    /\ last.out.value.matched_orders < last.out.value.total_orders

----------------------------------------------------------------------------
(* SpecAgree: revenue at risk and the watchlist over the same snapshot.    *)
(* The inspection rows include a latest inspection that is not yet graded  *)
(* (grade N, no grade_date) after an earlier graded one.                   *)

AgreeInspRows ==
    { InspRow(Camis07, 2, <<"N">>, T_Cited, T_Wiping, T_NotCritical, T_Manhattan, NaT),
      InspRow(Camis07, 2, <<"N">>, T_Cited, T_Wiping, T_Critical, T_Manhattan, NaT),
      InspRow(Camis07, 1, <<"A">>, T_Cited, T_Wiping, T_NotCritical, T_Manhattan, 1),
      InspRow(Camis07, 2, <<"C">>, T_Cited, T_Mice, T_Critical, T_Manhattan, 2),
      InspRow(Camis41, 1, <<"A">>, T_Cited, T_Wiping, T_NotCritical, T_Brooklyn, 1),
      InspRow(Camis41, 2, <<"P">>, T_Closed, T_Wiping, T_NotCritical, T_Brooklyn, 2) }

InitAgree ==
    /\ mappingFile = StdFile
    /\ orders \in {OrdersOf(rows) : rows \in SeqsUpTo({T_Joe, T_Moe, T_Zed} \X Costs, MaxOrders)}
    /\ inspections \in SeqsUpTo(AgreeInspRows, MaxInsp)
    /\ matcher = NewMatcher
    /\ merged = NotComputed
    /\ query = <<>>
    /\ ordersFile = NoOrdersFile
    /\ loader = NotLoaded
    /\ service = NoService
    /\ api = NoClient
    /\ last = [op |-> "start", arg |-> <<>>, out |-> Return(<<>>)]

NextAgree ==
    \/ Construct
    \/ GetRevenueAtRisk
    \/ GetWatchlist

SpecAgree == InitAgree /\ [][NextAgree]_vars

----------------------------------------------------------------------------
(* C27: revenue at risk against the watchlist. *)

\* The rows of the merged frame that get_revenue_at_risk counts in its union
RarUnionRows ==
    LET cat == RiskCategories(MergedFrame)
    IN  Range(cat.closed) \cup Range(cat.grade_c) \cup Range(cat.grade_pending)
        \cup Range(cat.critical_violation)

\* C27: whenever get_watchlist returns with top_n = 10 (more than the groups
\* of the model), every (restaurant_name, camis) group with an order that
\* get_revenue_at_risk counts in its union is an entry of the watchlist, with
\* at least one risk flag.
RarGroupsOnWatchlist ==
    (Did("get_watchlist") /\ last.arg = 10) =>
        \A r \in RarUnionRows :
            \E e \in Range(last.out.value.restaurants) :
                /\ e.restaurant_name = r.restaurant_name
                /\ e.camis = r.camis
                /\ e.risk_flags # <<>>

----------------------------------------------------------------------------
(* C28: the grade flag against the latest_grade field of a watchlist entry. *)

\* C28: whenever get_watchlist returns, in every entry the grade of a
\* "grade X" risk flag is the entry's latest_grade, and an entry whose
\* latest_grade is C, P, N or Z has the "grade X" flag of that grade.
GradeFlagIsLatestGrade ==
    Did("get_watchlist") =>
        \A e \in Range(last.out.value.restaurants) :
            /\ \A i \in 1..Len(e.risk_flags) :
                  e.risk_flags[i].flag = "grade" => e.risk_flags[i].grade = e.latest_grade
            /\ e.latest_grade \in RISK_GRADES =>
                  \E i \in 1..Len(e.risk_flags) :
                      /\ e.risk_flags[i].flag = "grade"
                      /\ e.risk_flags[i].grade = e.latest_grade

----------------------------------------------------------------------------
(* C29: consistent resolution of name variants. *)

\* The names of the model with the normalized, lower-cased form of the name
\* looked up
VariantsOfQuery == {n \in QueryNames : NormalizedKey(n) = NormalizedKey(last.arg)}

\* name is a key of the reference table, character for character
IsExactKey(name) == \E i \in 1..Len(ReferenceTable) : ReferenceTable[i].key = name

\* The positions of the table entries whose normalized key is that of name
CollidingEntries(name) ==
    {i \in 1..Len(ReferenceTable) : NormalizedKey(ReferenceTable[i].key) = NormalizedKey(name)}

\* The normalized lookup of the name looked up gave the camis of the last
\* table entry with its normalized key
LaterEntryWins ==
    (~IsExactKey(last.arg) /\ CollidingEntries(last.arg) # {}) =>
        last.out.value = ReferenceTable[SetMax(CollidingEntries(last.arg))].val.camis

\* C29, as stated: whenever get_camis returns, every name with the same
\* normalized, lower-cased form resolves to the same camis, and the
\* normalized lookup uses the later of two entries that share a normalized key.
VariantsResolveAlike ==
    Did("get_camis") =>
        /\ \A n \in VariantsOfQuery : get_camis(matcher, n) = last.out.value
        /\ LaterEntryWins

\* C29, amended: the same for the names that are not keys of the reference
\* table; a name that is a key resolves to its own entry.
VariantsResolveAlikeUnlessExactKey ==
    Did("get_camis") =>
        /\ ~IsExactKey(last.arg) =>
              \A n \in VariantsOfQuery :
                  ~IsExactKey(n) => get_camis(matcher, n) = last.out.value
        /\ LaterEntryWins

\* get_camis has returned for a name that is no key of the table while two
\* keys with different camis share its normalized form, and another name of
\* that form is no key either: both resolve to the later entry.
VariantsResolveAlikeUnlessExactKeyWitness ==
    /\ Did("get_camis")
    /\ ~IsExactKey(last.arg)
    /\ Cardinality(CollidingEntries(last.arg)) = 2
    /\ \E i, j \in CollidingEntries(last.arg) :
          i < j /\ ReferenceTable[i].val.camis # ReferenceTable[j].val.camis
                /\ last.out.value = ReferenceTable[j].val.camis
    /\ \E n \in VariantsOfQuery : n # last.arg /\ ~IsExactKey(n)

====
